---- MODULE Spec2Model ----
(***************************************************************************)
(* A model of RenamingPlan (src/src/mvs/plan.py): the planning pipeline    *)
(* prepare(), the execution rename_paths()/do_rename(), and the file       *)
(* system they read and change.                                            *)
(*                                                                         *)
(* A path string is a sequence of one-character strings, so that parent(), *)
(* commonprefix(), case folding and concatenation are computed and not     *)
(* assumed.  The file system is a function from the paths that exist       *)
(* (relative to the working directory, which always exists) to their kind. *)
(***************************************************************************)
EXTENDS Integers, Sequences, FiniteSets, TLC

\* ------------------------------------------------------------------------
\* Bounds of the model.
\* ------------------------------------------------------------------------
MaxPairs == 2
MaxFsChanges == 1

\* ------------------------------------------------------------------------
\* Strings and paths.
\* ------------------------------------------------------------------------
SLASH == "/"
DOT == <<".">>
\* RenamePair(orig, None): Python's None in the new field.
NONE_NEW == <<"None">>

\* Case folding of one character, as a case-insensitive file system does.
Lower(c) ==
    CASE c = "A" -> "a"
      [] c = "B" -> "b"
      [] c = "X" -> "x"
      [] OTHER -> c

Fold(p) == [i \in 1..Len(p) |-> Lower(p[i])]

\* Positions of the separator in p.
SlashPositions(p) == {i \in 1..Len(p) : p[i] = SLASH}

MaxOf(S) == CHOOSE x \in S : \A y \in S : y <= x

\* pathlib: Path(p).parent, as a string; the parent of a one-component
\* relative path is ".".
Parent(p) ==
    IF SlashPositions(p) = {} THEN DOT
    ELSE SubSeq(p, 1, MaxOf(SlashPositions(p)) - 1)

IsPrefix(s, t) == Len(s) <= Len(t) /\ SubSeq(t, 1, Len(s)) = s

\* q is p itself or lies below the directory p.
IsUnder(q, p) ==
    \/ q = p
    \/ /\ Len(q) > Len(p) + 1
       /\ IsPrefix(p, q)
       /\ q[Len(p) + 1] = SLASH

\* ------------------------------------------------------------------------
\* The file system: a function from existing paths to "file", "dir" or
\* "other".  ci says whether name lookup ignores case.
\* ------------------------------------------------------------------------
NOENT == <<"ENOENT">>

\* The directory entry that the name p refers to, or NOENT.
Resolve(f, ci, p) ==
    IF p = DOT THEN DOT
    ELSE IF p \in DOMAIN f THEN p
    ELSE IF ci /\ \E q \in DOMAIN f : Fold(q) = Fold(p)
         THEN CHOOSE q \in DOMAIN f : Fold(q) = Fold(p)
    ELSE NOENT

KindOf(f, ci, p) ==
    LET e == Resolve(f, ci, p)
    IN  IF e = NOENT THEN "absent"
        ELSE IF e = DOT THEN "dir"
        ELSE f[e]

Restrict(f, S) == [q \in S |-> f[q]]

\* The entries of f with everything at or below entry e removed.
Without(f, e) == Restrict(f, {q \in DOMAIN f : ~IsUnder(q, e)})

\* The entries at or below e, moved so that e is named dst.
Moved(f, e, dst) ==
    LET sub == {q \in DOMAIN f : IsUnder(q, e)}
        to(q) == dst \o SubSeq(q, Len(e) + 1, Len(q))
    IN  [r \in {to(q) : q \in sub} |->
            f[CHOOSE q \in sub : to(q) = r]]

HasChildren(f, e) == \E q \in DOMAIN f : q # e /\ IsUnder(q, e)

\* The last component of p.
Base(p) ==
    IF SlashPositions(p) = {} THEN p
    ELSE SubSeq(p, MaxOf(SlashPositions(p)) + 1, Len(p))

\* The name under which p is entered: the existing spelling of its parent
\* directory, then its own last component.
Canon(f, ci, p) ==
    IF Parent(p) = DOT THEN p
    ELSE Resolve(f, ci, Parent(p)) \o <<SLASH>> \o Base(p)

\* os.rename / os.replace.  win is TRUE where rename() refuses an existing
\* target (Windows); replace() overwrites on every platform.  The empty
\* string names no entry: a move to it fails (ENOENT).
\* Result: [ok |-> succeeded, fs |-> the file system afterwards].
FsRename(f, ci, win, src, dst, replacing) ==
    LET s == Resolve(f, ci, src)
        t == Resolve(f, ci, dst)
        fail == [ok |-> FALSE, fs |-> f]
    IN  IF s = NOENT \/ s = DOT THEN fail
        ELSE IF dst = << >> THEN fail
        ELSE IF KindOf(f, ci, Parent(dst)) # "dir" THEN fail
        ELSE IF dst # s /\ IsUnder(dst, s) THEN fail
        ELSE IF t = NOENT \/ t = s
             THEN [ok |-> TRUE,
                   fs |-> Moved(f, s, Canon(f, ci, dst)) @@ Without(f, s)]
        ELSE IF t = DOT THEN fail
        ELSE IF win /\ ~replacing THEN fail
        ELSE IF f[s] = "dir" /\ (f[t] # "dir" \/ HasChildren(f, t)) THEN fail
        ELSE IF f[s] # "dir" /\ f[t] = "dir" THEN fail
        ELSE [ok |-> TRUE,
              fs |-> Moved(f, s, Canon(f, ci, dst)) @@
                     Without(Without(f, s), t)]

\* Path(p).mkdir(parents = True, exist_ok = True).
RECURSIVE FsMkdir(_, _, _)
FsMkdir(f, ci, p) ==
    LET k == KindOf(f, ci, p)
    IN  IF k = "dir" THEN [ok |-> TRUE, fs |-> f]
        ELSE IF k # "absent" THEN [ok |-> FALSE, fs |-> f]
        ELSE LET up == FsMkdir(f, ci, Parent(p))
             IN  IF ~up.ok THEN up
                 ELSE [ok |-> TRUE,
                       fs |-> (Canon(up.fs, ci, p) :> "dir") @@ up.fs]
\* ------------------------------------------------------------------------
\* Existence and type queries (mvs/utils.py).
\* ------------------------------------------------------------------------
EXISTENCES_missing == 0
EXISTENCES_exists == 1
EXISTENCES_exists_strict == 2

\* existence_status(path): exists_strict when an entry is spelled exactly
\* like path, exists when the name resolves only through case folding.
existence_status(f, ci, p) ==
    IF p = DOT \/ p \in DOMAIN f THEN EXISTENCES_exists_strict
    ELSE IF Resolve(f, ci, p) # NOENT THEN EXISTENCES_exists
    ELSE EXISTENCES_missing

\* RenamingPlan.path_exists
path_exists(f, ci, p, strict) ==
    LET e == IF strict THEN EXISTENCES_exists_strict ELSE EXISTENCES_exists
    IN  existence_status(f, ci, p) >= e

\* is_valid_path_type(path): a regular file or a directory.
is_valid_path_type(f, ci, p) == KindOf(f, ci, p) \in {"file", "dir"}

\* paths_have_same_type(path, *others)
paths_have_same_type(f, ci, p, others) ==
    \A q \in others : KindOf(f, ci, q) = KindOf(f, ci, p)

\* ------------------------------------------------------------------------
\* Rename pairs, problems and controls (mvs/utils.py, mvs/problems.py).
\* ------------------------------------------------------------------------
RenamePair(orig, new) ==
    [orig |-> orig, new |-> new, exclude |-> FALSE,
     create_parent |-> FALSE, clobber |-> FALSE]

\* RenamePair.equal
RpEqual(rp) == rp.orig = rp.new

\* The ledger key None (uncontrolled) is written "none".
CONTROLS == {"skip", "keep", "create", "clobber"}
UNCONTROLLED == "none"

\* A problem with no pair attached has rp = << >>, otherwise rp = <<pair>>.
Problem(name, rpopt) == [name |-> name, rp |-> rpopt]

EmptyLedger == [c \in CONTROLS \cup {UNCONTROLLED} |-> << >>]

\* The controls that may be bound to each problem kind (ProblemControl).
Applicable(pname) ==
    CASE pname = "filter_code_invalid" -> {"skip", "keep"}
      [] pname \in {"rename_code_invalid", "equal", "missing"} -> {"skip"}
      [] pname = "parent" -> {"skip", "create"}
      [] pname \in {"existing", "existing_diff", "colliding", "colliding_diff"}
            -> {"skip", "clobber"}
      [] OTHER -> {}

ControllableNames ==
    {"filter_code_invalid", "rename_code_invalid", "equal", "missing",
     "parent", "existing", "existing_diff", "colliding", "colliding_diff"}

\* RenamingPlan.control_lookup.get(name, None)
ControlFor(lookup, pname) ==
    IF pname \in DOMAIN lookup THEN lookup[pname] ELSE UNCONTROLLED

\* handle_problem filing every problem as uncontrolled.
handle_problem_unfiled(ledger, lookup, pname, rpopt) ==
    [ledger EXCEPT ![UNCONTROLLED] = Append(@, Problem(pname, rpopt))]

\* RenamingPlan.handle_problem: the ledger with the problem appended to the
\* bucket of its control.  The control itself is ControlFor(lookup, name).
handle_problem(ledger, lookup, pname, rpopt) ==
    LET control == ControlFor(lookup, pname)
    IN  [ledger EXCEPT ![control] = Append(@, Problem(pname, rpopt))]

\* RenamingPlan.uncontrolled_problems / RenamingPlan.failed
uncontrolled_problems(ledger) == ledger[UNCONTROLLED]

failed(ledger) == uncontrolled_problems(ledger) # << >>
\* ------------------------------------------------------------------------
\* Parsing (RenamingPlan.parse_inputs).  A line is a path string, the empty
\* line is << >>, and TAB separates the cells of a row.
\* ------------------------------------------------------------------------
TAB == "TAB"

NonEmpty(lines) == SelectSeq(lines, LAMBDA l : l # << >>)

\* The paragraphs of lines (itertools.groupby on bool(line), true groups).
RECURSIVE Paragraphs(_)
Paragraphs(lines) ==
    IF lines = << >> THEN << >>
    ELSE IF Head(lines) = << >> THEN Paragraphs(Tail(lines))
    ELSE LET rest == Paragraphs(Tail(lines))
         IN  IF Len(lines) > 1 /\ lines[2] # << >>
             THEN <<(<<Head(lines)>> \o Head(rest))>> \o Tail(rest)
             ELSE <<(<<Head(lines)>>)>> \o rest

\* row.split(TAB)
RECURSIVE Split(_)
Split(row) ==
    LET tabs == {i \in 1..Len(row) : row[i] = TAB}
    IN  IF tabs = {} THEN <<row>>
        ELSE LET i == CHOOSE j \in tabs : \A k \in tabs : j <= k
             IN  <<SubSeq(row, 1, i - 1)>> \o Split(SubSeq(row, i + 1, Len(row)))

\* The lines of the input at even (k = 0) or odd (k = 1) positions, counted
\* from 0 over all lines, that are not empty.
RECURSIVE Alternate(_, _, _)
Alternate(lines, i, k) ==
    IF i > Len(lines) THEN << >>
    ELSE (IF lines[i] # << >> /\ (i - 1) % 2 = k THEN <<lines[i]>> ELSE << >>)
         \o Alternate(lines, i + 1, k)

\* The rows loop: [problem, origs, news], stopping at the first bad row.
RECURSIVE Rows(_)
Rows(lines) ==
    IF lines = << >> THEN [problem |-> "", origs |-> << >>, news |-> << >>]
    ELSE IF Head(lines) = << >> THEN Rows(Tail(lines))
    ELSE LET cells == Split(Head(lines))
         IN  IF Len(cells) = 2 /\ cells[1] # << >> /\ cells[2] # << >>
             THEN LET rest == Rows(Tail(lines))
                  IN  [rest EXCEPT !.origs = <<cells[1]>> \o @,
                                   !.news = <<cells[2]>> \o @]
             ELSE [problem |-> "parsing_row", origs |-> << >>, news |-> << >>]

Zip(origs, news) ==
    [i \in 1..Len(origs) |-> RenamePair(origs[i], news[i])]

\* The final checks of parse_inputs on the collected origs and news.
Balanced(origs, news) ==
    IF origs = << >> /\ news = << >>
    THEN [problem |-> "parsing_no_paths", rps |-> << >>]
    ELSE IF Len(origs) # Len(news)
    THEN [problem |-> "parsing_imbalance", rps |-> << >>]
    ELSE [problem |-> "", rps |-> Zip(origs, news)]

\* parse_inputs cutting the flat lines into two halves of the same length.
parse_inputs_even(lines, struct, rcode) ==
    IF rcode # ""
    THEN LET origs == NonEmpty(lines)
         IN  IF origs # << >>
             THEN [problem |-> "",
                   rps |-> [i \in 1..Len(origs) |->
                               RenamePair(origs[i], NONE_NEW)]]
             ELSE [problem |-> "parsing_no_paths", rps |-> << >>]
    ELSE IF struct = "paragraphs"
    THEN LET groups == Paragraphs(lines)
         IN  IF Len(groups) = 2 THEN Balanced(groups[1], groups[2])
             ELSE [problem |-> "parsing_paragraphs", rps |-> << >>]
    ELSE IF struct = "pairs"
    THEN Balanced(Alternate(lines, 1, 0), Alternate(lines, 1, 1))
    ELSE IF struct = "rows"
    THEN LET r == Rows(lines)
         IN  IF r.problem # "" THEN [problem |-> r.problem, rps |-> << >>]
             ELSE Balanced(r.origs, r.news)
    ELSE LET paths == NonEmpty(lines)
             i == Len(paths) \div 2
         IN  Balanced(SubSeq(paths, 1, i), SubSeq(paths, i + 1, 2 * i))
\* parse_inputs: [problem |-> the problem registered or "", rps |-> pairs].
parse_inputs(lines, struct, rcode) ==
    IF rcode # ""
    THEN LET origs == NonEmpty(lines)
         IN  IF origs # << >>
             THEN [problem |-> "",
                   rps |-> [i \in 1..Len(origs) |->
                               RenamePair(origs[i], NONE_NEW)]]
             ELSE [problem |-> "parsing_no_paths", rps |-> << >>]
    ELSE IF struct = "paragraphs"
    THEN LET groups == Paragraphs(lines)
         IN  IF Len(groups) = 2 THEN Balanced(groups[1], groups[2])
             ELSE [problem |-> "parsing_paragraphs", rps |-> << >>]
    ELSE IF struct = "pairs"
    THEN Balanced(Alternate(lines, 1, 0), Alternate(lines, 1, 1))
    ELSE IF struct = "rows"
    THEN LET r == Rows(lines)
         IN  IF r.problem # "" THEN [problem |-> r.problem, rps |-> << >>]
             ELSE Balanced(r.origs, r.news)
    ELSE LET paths == NonEmpty(lines)
             i == Len(paths) \div 2
         IN  Balanced(SubSeq(paths, 1, i), SubSeq(paths, i + 1, Len(paths)))
\* ------------------------------------------------------------------------
\* User code.  A snippet is named by its source text; "" is no snippet.
\* ------------------------------------------------------------------------
SYNTAX_ERROR == "return ("

\* make_user_defined_func never seeing exec() raise.
Compiles_always(code) == TRUE
\* make_user_defined_func: exec() of the wrapped snippet raises or not.
Compiles(code) == code # SYNTAX_ERROR

\* os.path.commonprefix of the origs, as a length (compute_prefix_len).
CommonLen(s, t) ==
    LET agree == {n \in 0..Len(s) : n <= Len(t) /\ SubSeq(s, 1, n) = SubSeq(t, 1, n)}
    IN  MaxOf(agree)

compute_prefix_len(rps) ==
    IF rps = << >> THEN 0
    ELSE LET lens == {CommonLen(rps[1].orig, rps[i].orig) : i \in 1..Len(rps)}
         IN  CHOOSE n \in lens : \A m \in lens : n <= m

\* RenamingPlan.strip_prefix
strip_prefix(plen, orig) ==
    IF plen # 0 THEN SubSeq(orig, plen + 1, Len(orig)) ELSE orig

\* compute_sequence_iterator() advancing by one whatever seq_step is.
SeqVal_unit(start, step, k) == start + k
\* The value at position k (from 0) of compute_sequence_iterator().
SeqVal(start, step, k) == start + k * step

\* filter_func(o, p, seq, plan): "true", "false" or "raise".
FilterCall(code, o, seqv, plen) ==
    CASE code = "return o != 'b'" ->
            IF o = <<"b">> THEN "false" ELSE "true"
      [] code = "return o[1] != 'b'" ->
            IF Len(o) < 2 THEN "raise"
            ELSE IF o[2] = "b" THEN "false" ELSE "true"
      [] code = "return seq > 1" ->
            IF seqv > 1 THEN "true" ELSE "false"
      [] OTHER -> "true"

\* rename_func(o, p, seq, plan): [kind |-> "str", "bad" or "raise", val].
RenameCall(code, o, seqv, plen) ==
    CASE code = "return o + o" -> [kind |-> "str", val |-> o \o o]
      [] code = "return plan.strip_prefix(o)" ->
            [kind |-> "str", val |-> strip_prefix(plen, o)]
      [] code = "return 'x' * seq" ->
            [kind |-> "str", val |-> [i \in 1..seqv |-> "x"]]
      [] code = "return o[1] + 'x'" ->
            IF Len(o) < 2 THEN [kind |-> "raise", val |-> << >>]
            ELSE [kind |-> "str", val |-> <<o[2], "x">>]
      [] code = "return len(o) > 1 and 'x'" ->
            IF Len(o) > 1 THEN [kind |-> "str", val |-> <<"x">>]
            ELSE [kind |-> "bad", val |-> << >>]
      [] OTHER -> [kind |-> "bad", val |-> << >>]

\* ------------------------------------------------------------------------
\* The steps that process one RenamePair.  Each yields
\* [problem |-> the Problem's name or "", rp |-> the pair returned].
\* c is the plan and its file system as the step reads them:
\* [fs, ci, filter_code, rename_code, prefix_len, news].
\* ------------------------------------------------------------------------
Ok(rp) == [problem |-> "", rp |-> rp]
Bad(pname, rp) == [problem |-> pname, rp |-> rp]

\* execute_user_filter returning the pair as it is for a falsy result.
execute_user_filter_keeps(c, rp, seqv) ==
    IF c.filter_code # ""
    THEN LET r == FilterCall(c.filter_code, rp.orig, seqv, c.prefix_len)
         IN  IF r = "raise" THEN Bad("filter_code_invalid", rp)
             ELSE Ok(rp)
    ELSE Ok(rp)
execute_user_filter(c, rp, seqv) ==
    IF c.filter_code # ""
    THEN LET r == FilterCall(c.filter_code, rp.orig, seqv, c.prefix_len)
         IN  IF r = "raise" THEN Bad("filter_code_invalid", rp)
             ELSE IF r = "true" THEN Ok(rp)
             ELSE Ok([rp EXCEPT !.exclude = TRUE])
    ELSE Ok(rp)

execute_user_rename(c, rp, seqv) ==
    IF c.rename_code # ""
    THEN LET r == RenameCall(c.rename_code, rp.orig, seqv, c.prefix_len)
         IN  IF r.kind = "raise" THEN Bad("rename_code_invalid", rp)
             ELSE IF r.kind = "str" THEN Ok([rp EXCEPT !.new = r.val])
             ELSE Bad("rename_code_bad_return", rp)
    ELSE Ok(rp)

check_orig_exists(c, rp, seqv) ==
    IF path_exists(c.fs, c.ci, rp.orig, FALSE) THEN Ok(rp)
    ELSE Bad("missing", rp)

check_orig_type(c, rp, seqv) ==
    IF is_valid_path_type(c.fs, c.ci, rp.orig) THEN Ok(rp)
    ELSE Bad("type", rp)

check_orig_new_differ(c, rp, seqv) ==
    IF RpEqual(rp) THEN Bad("equal", rp) ELSE Ok(rp)

\* check_new_not_exists reporting only targets of another type.
check_new_not_exists_diff(c, rp, seqv) ==
    IF path_exists(c.fs, c.ci, rp.new, TRUE) /\ ~RpEqual(rp)
       /\ ~paths_have_same_type(c.fs, c.ci, rp.orig, {rp.new})
    THEN Bad("existing_diff", rp)
    ELSE Ok(rp)

\* check_new_not_exists asking for existence under any spelling.
check_new_not_exists_loose(c, rp, seqv) ==
    IF path_exists(c.fs, c.ci, rp.new, FALSE) /\ ~RpEqual(rp)
    THEN IF paths_have_same_type(c.fs, c.ci, rp.orig, {rp.new})
         THEN Bad("existing", rp)
         ELSE Bad("existing_diff", rp)
    ELSE Ok(rp)
check_new_not_exists(c, rp, seqv) ==
    IF path_exists(c.fs, c.ci, rp.new, TRUE) /\ ~RpEqual(rp)
    THEN IF paths_have_same_type(c.fs, c.ci, rp.orig, {rp.new})
         THEN Bad("existing", rp)
         ELSE Bad("existing_diff", rp)
    ELSE Ok(rp)

check_new_parent_exists(c, rp, seqv) ==
    IF path_exists(c.fs, c.ci, Parent(rp.new), FALSE) THEN Ok(rp)
    ELSE Bad("parent", rp)

\* prepare_new_groups: the group of a new path is the pairs that have it;
\* c.news holds the new path of every pair at the start of the step.
NewGroup(news, new) == {i \in 1..Len(news) : news[i] = new}

\* check_new_collisions finding every group to hold one pair.
check_new_collisions_alone(c, rp, seqv) == Ok(rp)

\* check_new_collisions taking a group of two to be no collision.
check_new_collisions_three(c, rp, seqv) ==
    LET g == NewGroup(c.news, rp.new)
    IN  IF Cardinality(g) <= 2 THEN Ok(rp)
        ELSE IF paths_have_same_type(c.fs, c.ci, rp.new, {c.news[i] : i \in g})
             THEN Bad("colliding", rp)
             ELSE Bad("colliding_diff", rp)
check_new_collisions(c, rp, seqv) ==
    LET g == NewGroup(c.news, rp.new)
    IN  IF Cardinality(g) = 1 THEN Ok(rp)
        ELSE IF paths_have_same_type(c.fs, c.ci, rp.new, {c.news[i] : i \in g})
             THEN Bad("colliding", rp)
             ELSE Bad("colliding_diff", rp)

\* rp_steps of prepare(), in order.
rp_steps ==
    <<"execute_user_filter", "execute_user_rename", "check_orig_exists",
      "check_orig_type", "check_orig_new_differ", "check_new_not_exists",
      "check_new_parent_exists", "check_new_collisions">>

RunStep(step, c, rp, seqv) ==
    CASE step = "execute_user_filter" -> execute_user_filter(c, rp, seqv)
      [] step = "execute_user_rename" -> execute_user_rename(c, rp, seqv)
      [] step = "check_orig_exists" -> check_orig_exists(c, rp, seqv)
      [] step = "check_orig_type" -> check_orig_type(c, rp, seqv)
      [] step = "check_orig_new_differ" -> check_orig_new_differ(c, rp, seqv)
      [] step = "check_new_not_exists" -> check_new_not_exists(c, rp, seqv)
      [] step = "check_new_parent_exists" -> check_new_parent_exists(c, rp, seqv)
      [] step = "check_new_collisions" -> check_new_collisions(c, rp, seqv)

\* processed_rps yielding the pair of a skipped problem all the same.
Yielded_noskip(control, res) ==
    IF control = "clobber" THEN <<[res.rp EXCEPT !.clobber = TRUE]>>
    ELSE IF control = "create" THEN <<[res.rp EXCEPT !.create_parent = TRUE]>>
    ELSE IF ~res.rp.exclude THEN <<res.rp>>
    ELSE << >>

\* processed_rps setting both flags under the create control.
Yielded_bothflags(control, res) ==
    IF control = "skip" THEN << >>
    ELSE IF control = "clobber" THEN <<[res.rp EXCEPT !.clobber = TRUE]>>
    ELSE IF control = "create"
         THEN <<[res.rp EXCEPT !.create_parent = TRUE, !.clobber = TRUE]>>
    ELSE IF ~res.rp.exclude THEN <<res.rp>>
    ELSE << >>
\* processed_rps dropping the pair of a kept problem as it drops a skipped
\* one.
Yielded_keepdrops(control, res) ==
    IF control \in {"skip", "keep"} THEN << >>
    ELSE IF control = "clobber" THEN <<[res.rp EXCEPT !.clobber = TRUE]>>
    ELSE IF control = "create" THEN <<[res.rp EXCEPT !.create_parent = TRUE]>>
    ELSE IF ~res.rp.exclude THEN <<res.rp>>
    ELSE << >>
\* What processed_rps yields for one pair, given the step's result and the
\* control of its problem: << >> (nothing) or <<pair>>.
Yielded(control, res) ==
    IF control = "skip" THEN << >>
    ELSE IF control = "clobber" THEN <<[res.rp EXCEPT !.clobber = TRUE]>>
    ELSE IF control = "create" THEN <<[res.rp EXCEPT !.create_parent = TRUE]>>
    ELSE IF ~res.rp.exclude THEN <<res.rp>>
    ELSE << >>

\* processed_rps leaving its loop at the first skipped pair.
RECURSIVE ProcessedFrom_break(_, _, _, _, _, _, _, _)
ProcessedFrom_break(step, c, lookup, start, stp, rps, i, ledger) ==
    IF i > Len(rps) THEN [rps |-> << >>, problems |-> ledger]
    ELSE LET rp == rps[i]
             res == RunStep(step, c, rp, SeqVal(start, stp, i - 1))
             control == IF res.problem # ""
                        THEN ControlFor(lookup, res.problem)
                        ELSE UNCONTROLLED
             led == IF res.problem # ""
                    THEN handle_problem(ledger, lookup, res.problem, <<rp>>)
                    ELSE ledger
             rest == IF control = "skip"
                     THEN [rps |-> << >>, problems |-> led]
                     ELSE ProcessedFrom_break(step, c, lookup, start, stp,
                                              rps, i + 1, led)
         IN  [rps |-> Yielded(control, res) \o rest.rps,
              problems |-> rest.problems]
\* processed_rps ending its loop at the first problem of the step, as if
\* the hook's exception went through: the pairs after it are not processed.
RECURSIVE ProcessedFrom_raise(_, _, _, _, _, _, _, _)
ProcessedFrom_raise(step, c, lookup, start, stp, rps, i, ledger) ==
    IF i > Len(rps) THEN [rps |-> << >>, problems |-> ledger]
    ELSE LET rp == rps[i]
             res == RunStep(step, c, rp, SeqVal(start, stp, i - 1))
             control == IF res.problem # ""
                        THEN ControlFor(lookup, res.problem)
                        ELSE UNCONTROLLED
             led == IF res.problem # ""
                    THEN handle_problem(ledger, lookup, res.problem, <<rp>>)
                    ELSE ledger
             rest == IF res.problem # ""
                     THEN [rps |-> << >>, problems |-> led]
                     ELSE ProcessedFrom_raise(step, c, lookup, start, stp,
                                              rps, i + 1, led)
         IN  [rps |-> Yielded(control, res) \o rest.rps,
              problems |-> rest.problems]
\* processed_rps(step) from pair i on: [rps |-> the pairs yielded,
\* problems |-> the ledger afterwards].
RECURSIVE ProcessedFrom(_, _, _, _, _, _, _, _)
ProcessedFrom(step, c, lookup, start, stp, rps, i, ledger) ==
    IF i > Len(rps) THEN [rps |-> << >>, problems |-> ledger]
    ELSE LET rp == rps[i]
             res == RunStep(step, c, rp, SeqVal(start, stp, i - 1))
             control == IF res.problem # ""
                        THEN ControlFor(lookup, res.problem)
                        ELSE UNCONTROLLED
             led == IF res.problem # ""
                    THEN handle_problem(ledger, lookup, res.problem, <<rp>>)
                    ELSE ledger
             rest == ProcessedFrom(step, c, lookup, start, stp, rps, i + 1, led)
         IN  [rps |-> Yielded(control, res) \o rest.rps,
              problems |-> rest.problems]
\* ------------------------------------------------------------------------
\* Problem controls given to the constructor.
\* ------------------------------------------------------------------------
\* ProblemControl(name): a control and the problem kind it is bound to.
ProblemControl(control, pname) == [control |-> control, pname |-> pname]

\* build_control_lookup letting a later control replace an earlier one.
RECURSIVE build_control_lookup_last(_, _)
build_control_lookup_last(pcs, n) ==
    IF n = 0 THEN [error |-> "", lookup |-> << >>]
    ELSE LET sofar == build_control_lookup_last(pcs, n - 1)
             pc_ == pcs[n]
         IN  [error |-> "",
              lookup |-> (pc_.pname :> pc_.control) @@ sofar.lookup]
\* build_control_lookup over the first n controls: the lookup, or the
\* conflict that makes the constructor raise.
RECURSIVE build_control_lookup(_, _)
build_control_lookup(pcs, n) ==
    IF n = 0 THEN [error |-> "", lookup |-> << >>]
    ELSE LET sofar == build_control_lookup(pcs, n - 1)
             pc_ == pcs[n]
         IN  IF sofar.error # "" THEN sofar
             ELSE IF pc_.pname \in DOMAIN sofar.lookup
             THEN [error |-> "conflicting_controls", lookup |-> sofar.lookup]
             ELSE [error |-> "",
                   lookup |-> (pc_.pname :> pc_.control) @@ sofar.lookup]

\* ProblemControl(name) accepts a name only if its control may be bound to
\* its problem kind, and raises invalid_control otherwise.
ValidControl(pc_) == pc_.control \in Applicable(pc_.pname)

\* The constructor building the lookup from names it does not validate.
ConstructControls_unchecked(pcs) == build_control_lookup(pcs, Len(pcs))
\* The constructor accepting skip for every kind of problem.
ConstructControls_lenient(pcs) ==
    IF \E i \in 1..Len(pcs) :
          ~ValidControl(pcs[i]) /\ pcs[i].control # "skip"
    THEN [error |-> "invalid_control", lookup |-> << >>]
    ELSE build_control_lookup(pcs, Len(pcs))
\* The constructor's use of the controls: every ProblemControl is built
\* before the lookup is, so an invalid name is reported before a conflict.
\* [error |-> what the constructor raises or "", lookup].
ConstructControls(pcs) ==
    IF \E i \in 1..Len(pcs) : ~ValidControl(pcs[i])
    THEN [error |-> "invalid_control", lookup |-> << >>]
    ELSE build_control_lookup(pcs, Len(pcs))

\* ------------------------------------------------------------------------
\* The plan, the file system and the caller's position.
\* ------------------------------------------------------------------------
VARIABLES
    inputs, structure, rename_code, filter_code, seq_start, seq_step,
    controls, control_lookup, raise_at,
    rps, problems, prefix_len, has_prepared, has_renamed, tracking_index,
    fs, fs_ci, fs_win,
    pc, step_i, caller, loop_i,
    raised, raised_problems, attempts, renamed, fs_changes

vars ==
    <<inputs, structure, rename_code, filter_code, seq_start, seq_step,
      controls, control_lookup, raise_at,
      rps, problems, prefix_len, has_prepared, has_renamed, tracking_index,
      fs, fs_ci, fs_win,
      pc, step_i, caller, loop_i,
      raised, raised_problems, attempts, renamed, fs_changes>>

config_vars ==
    <<inputs, structure, rename_code, filter_code, seq_start, seq_step,
      controls, control_lookup, raise_at, fs_ci, fs_win>>

\* RenamingPlan.TRACKING; done is Python's None, written -2 here and
\* ordered after every index by TrackingRank.
TRACKING_not_started == -1
TRACKING_done == -2
\* raise_at = None: no simulated error.
RAISE_AT_none == -3

\* The order not_started < 0 < 1 < ... < n - 1 < done on tracking indexes.
TrackingRank(t, n) == IF t = TRACKING_done THEN n ELSE t
\* ------------------------------------------------------------------------
\* prepare(), up to the loop over rp_steps: parsing and the user functions.
\* [rps, problems] as they are when the loop is reached or prepare returns.
\* ------------------------------------------------------------------------
\* prepare() making the user functions whether parsing failed or not.
PrepareEntry_compiles(lines, struct, rcode, fcode, lookup, ledger) ==
    LET parsed == parse_inputs(lines, struct, rcode)
        led1 == IF parsed.problem # ""
                THEN handle_problem(ledger, lookup, parsed.problem, << >>)
                ELSE ledger
        led2 == IF rcode # "" /\ ~Compiles(rcode)
                THEN handle_problem(led1, lookup, "user_code_exec", << >>)
                ELSE led1
        led3 == IF fcode # "" /\ ~Compiles(fcode)
                THEN handle_problem(led2, lookup, "user_code_exec", << >>)
                ELSE led2
    IN  [rps |-> parsed.rps, problems |-> led3]
PrepareEntry(lines, struct, rcode, fcode, lookup, ledger) ==
    LET parsed == parse_inputs(lines, struct, rcode)
        led1 == IF parsed.problem # ""
                THEN handle_problem(ledger, lookup, parsed.problem, << >>)
                ELSE ledger
        led2 == IF rcode # "" /\ ~Compiles(rcode)
                THEN handle_problem(led1, lookup, "user_code_exec", << >>)
                ELSE led1
        led3 == IF fcode # "" /\ ~Compiles(fcode)
                THEN handle_problem(led2, lookup, "user_code_exec", << >>)
                ELSE led2
    IN  IF failed(led1) THEN [rps |-> parsed.rps, problems |-> led1]
        ELSE [rps |-> parsed.rps, problems |-> led3]

\* One turn of the loop that never registers all_filtered.
PrepareTurn_silent(step, c, lookup, start, stp, pairs, ledger) ==
    LET r == ProcessedFrom(step, c, lookup, start, stp, pairs, 1, ledger)
    IN  [rps |-> r.rps, problems |-> r.problems]
\* One turn of the loop handing the yielded pairs back in reverse order.
PrepareTurn_reversed(step, c, lookup, start, stp, pairs, ledger) ==
    LET r == ProcessedFrom(step, c, lookup, start, stp, pairs, 1, ledger)
        back == [j \in 1..Len(r.rps) |-> r.rps[Len(r.rps) + 1 - j]]
    IN  [rps |-> back,
         problems |-> IF r.rps = << >>
                      THEN handle_problem(r.problems, lookup, "all_filtered", << >>)
                      ELSE r.problems]
\* One turn of the loop over rp_steps: the step on every pair, then the
\* all_filtered problem if nothing is left.
PrepareTurn(step, c, lookup, start, stp, pairs, ledger) ==
    LET r == ProcessedFrom(step, c, lookup, start, stp, pairs, 1, ledger)
    IN  [rps |-> r.rps,
         problems |-> IF r.rps = << >>
                      THEN handle_problem(r.problems, lookup, "all_filtered", << >>)
                      ELSE r.problems]

\* The step reading a prefix length computed once, from the parsed pairs.
StepContext_stale ==
    [fs |-> fs, ci |-> fs_ci, filter_code |-> filter_code,
     rename_code |-> rename_code,
     prefix_len |-> compute_prefix_len(
                        parse_inputs(inputs, structure, rename_code).rps),
     news |-> [i \in 1..Len(rps) |-> rps[i].new]]
\* What a step reads: the file system, the snippets, and the prefix length
\* and the news as processed_rps and prepare_new_groups compute them from
\* self.rps when the step starts.
StepContext ==
    [fs |-> fs, ci |-> fs_ci, filter_code |-> filter_code,
     rename_code |-> rename_code, prefix_len |-> compute_prefix_len(rps),
     news |-> [i \in 1..Len(rps) |-> rps[i].new]]

\* rename_paths() entering its loop without looking at self.failed.
AfterPrepare_unchecked(led) ==
    /\ pc' = "rename"
    /\ loop_i' = 0
    /\ raised' = ""
    /\ raised_problems' = << >>

\* rename_paths() once prepare() has returned with ledger led: raise
\* prepare_failed or enter the loop over the pairs.
AfterPrepare(led) ==
    IF failed(led)
    THEN /\ pc' = "idle"
         /\ raised' = "prepare_failed"
         /\ raised_problems' = uncontrolled_problems(led)
         /\ UNCHANGED loop_i
    ELSE /\ pc' = "rename"
         /\ loop_i' = 0
         /\ raised' = ""
         /\ raised_problems' = << >>

\* prepare() raising prepare_failed itself when the plan has failed.
PrepareReturns_raising(led) ==
    IF caller' = "rename_paths" THEN AfterPrepare(led)
    ELSE /\ pc' = "idle"
         /\ raised' = IF failed(led) THEN "prepare_failed" ELSE raised
         /\ UNCHANGED <<raised_problems, loop_i>>
\* prepare() returns to its caller.  raised is what the latest call of
\* rename_paths() raised, so a call of prepare() leaves it alone.
PrepareReturns(led) ==
    IF caller' = "rename_paths" THEN AfterPrepare(led)
    ELSE /\ pc' = "idle"
         /\ UNCHANGED <<raised, raised_problems, loop_i>>

\* prepare() without its has_prepared guard.
PrepareBody_always(who) ==
    LET e == PrepareEntry(inputs, structure, rename_code, filter_code,
                          control_lookup, problems)
    IN  /\ has_prepared' = TRUE
        /\ rps' = e.rps
        /\ problems' = e.problems
        /\ caller' = who
        /\ UNCHANGED prefix_len
        /\ IF failed(e.problems)
           THEN PrepareReturns(e.problems) /\ UNCHANGED step_i
           ELSE /\ pc' = "prepare"
                /\ step_i' = 1
                /\ UNCHANGED <<raised, raised_problems, loop_i>>

\* The body of prepare() when called by who.
PrepareBody(who) ==
    IF has_prepared
    THEN /\ caller' = who
         /\ PrepareReturns(problems)
         /\ UNCHANGED <<rps, problems, prefix_len, has_prepared, step_i>>
    ELSE LET e == PrepareEntry(inputs, structure, rename_code, filter_code,
                               control_lookup, problems)
         IN  /\ has_prepared' = TRUE
             /\ rps' = e.rps
             /\ problems' = e.problems
             /\ caller' = who
             /\ UNCHANGED prefix_len
             /\ IF failed(e.problems)
                THEN PrepareReturns(e.problems) /\ UNCHANGED step_i
                ELSE /\ pc' = "prepare"
                     /\ step_i' = 1
                     /\ UNCHANGED <<raised, raised_problems, loop_i>>

\* A call of plan.prepare().
Prepare ==
    /\ pc = "idle"
    /\ PrepareBody("prepare")
    /\ UNCHANGED <<has_renamed, tracking_index, fs, attempts, renamed,
                   fs_changes>>
    /\ UNCHANGED config_vars

\* The file system after making the parent of every pair from i on that
\* has create_parent.
RECURSIVE WithParents(_, _, _, _)
WithParents(f, ci, pairs, i) ==
    IF i > Len(pairs) THEN f
    ELSE WithParents(IF pairs[i].create_parent
                     THEN FsMkdir(f, ci, Parent(pairs[i].new)).fs
                     ELSE f,
                     ci, pairs, i + 1)

\* The turn of the loop making the missing parents as soon as the create
\* control has been applied to them.
PrepareStep_creates ==
    /\ pc = "prepare"
    /\ LET t == PrepareTurn(rp_steps[step_i], StepContext, control_lookup,
                            seq_start, seq_step, rps, problems)
       IN  /\ rps' = t.rps
           /\ problems' = t.problems
           /\ prefix_len' = compute_prefix_len(rps)
           /\ fs' = WithParents(fs, fs_ci, t.rps, 1)
           /\ UNCHANGED caller
           /\ IF failed(t.problems) \/ step_i = Len(rp_steps)
              THEN PrepareReturns(t.problems) /\ UNCHANGED step_i
              ELSE /\ step_i' = step_i + 1
                   /\ UNCHANGED <<pc, loop_i, raised, raised_problems>>
    /\ UNCHANGED <<has_prepared, has_renamed, tracking_index, attempts,
                   renamed, fs_changes>>
    /\ UNCHANGED config_vars
\* The loop over rp_steps going on to the next step whatever the ledger holds.
PrepareStep_goes_on ==
    /\ pc = "prepare"
    /\ LET t == PrepareTurn(rp_steps[step_i], StepContext, control_lookup,
                            seq_start, seq_step, rps, problems)
       IN  /\ rps' = t.rps
           /\ problems' = t.problems
           /\ prefix_len' = compute_prefix_len(rps)
           /\ UNCHANGED caller
           /\ IF step_i = Len(rp_steps)
              THEN PrepareReturns(t.problems) /\ UNCHANGED step_i
              ELSE /\ step_i' = step_i + 1
                   /\ UNCHANGED <<pc, loop_i, raised, raised_problems>>
    /\ UNCHANGED <<has_prepared, has_renamed, tracking_index, fs, attempts,
                   renamed, fs_changes>>
    /\ UNCHANGED config_vars
\* The next turn of the loop over rp_steps.
PrepareStep ==
    /\ pc = "prepare"
    /\ LET t == PrepareTurn(rp_steps[step_i], StepContext, control_lookup,
                            seq_start, seq_step, rps, problems)
       IN  /\ rps' = t.rps
           /\ problems' = t.problems
           /\ prefix_len' = compute_prefix_len(rps)
           /\ UNCHANGED caller
           /\ IF failed(t.problems) \/ step_i = Len(rp_steps)
              THEN PrepareReturns(t.problems) /\ UNCHANGED step_i
              ELSE /\ step_i' = step_i + 1
                   /\ UNCHANGED <<pc, loop_i, raised, raised_problems>>
    /\ UNCHANGED <<has_prepared, has_renamed, tracking_index, fs, attempts,
                   renamed, fs_changes>>
    /\ UNCHANGED config_vars

\* rename_paths() without its has_renamed guard.
RenamePaths_again ==
    /\ pc = "idle"
    /\ has_renamed' = TRUE
    /\ PrepareBody("rename_paths")
    /\ UNCHANGED <<tracking_index, fs, attempts, renamed, fs_changes>>
    /\ UNCHANGED config_vars

\* A call of plan.rename_paths().
RenamePaths ==
    /\ pc = "idle"
    /\ IF has_renamed
       THEN /\ raised' = "rename_done_already"
            /\ raised_problems' = << >>
            /\ UNCHANGED <<rps, problems, prefix_len, has_prepared,
                           has_renamed, pc, step_i, caller, loop_i>>
       ELSE /\ has_renamed' = TRUE
            /\ PrepareBody("rename_paths")
    /\ UNCHANGED <<tracking_index, fs, attempts, renamed, fs_changes>>
    /\ UNCHANGED config_vars

\* The file-system call that moves the pair: replace() or rename().
MoveCall(rp) == IF rp.clobber THEN "replace" ELSE "rename"

\* do_rename renaming first and creating the parent afterwards.
do_rename_mkdir_last(f, ci, win, rp, ti, rat) ==
    IF ti = rat THEN [raised |-> "SIMULATED_ERROR", fs |-> f, calls |-> << >>]
    ELSE LET rn == FsRename(f, ci, win, rp.orig, rp.new, rp.clobber)
             mk == IF rp.create_parent THEN FsMkdir(rn.fs, ci, Parent(rp.new))
                   ELSE [ok |-> TRUE, fs |-> rn.fs]
             mkcall == IF rp.create_parent THEN <<"mkdir">> ELSE << >>
         IN  IF ~rn.ok
             THEN [raised |-> "OSError", fs |-> f, calls |-> <<MoveCall(rp)>>]
             ELSE IF ~mk.ok
             THEN [raised |-> "OSError", fs |-> rn.fs,
                   calls |-> <<MoveCall(rp)>> \o mkcall]
             ELSE [raised |-> "", fs |-> mk.fs,
                   calls |-> <<MoveCall(rp)>> \o mkcall]

\* do_rename moving new onto orig.
do_rename_swapped(f, ci, win, rp, ti, rat) ==
    IF ti = rat THEN [raised |-> "SIMULATED_ERROR", fs |-> f, calls |-> << >>]
    ELSE LET mk == IF rp.create_parent THEN FsMkdir(f, ci, Parent(rp.new))
                   ELSE [ok |-> TRUE, fs |-> f]
             mkcall == IF rp.create_parent THEN <<"mkdir">> ELSE << >>
             rn == FsRename(mk.fs, ci, win, rp.new, rp.orig, rp.clobber)
         IN  IF ~mk.ok
             THEN [raised |-> "OSError", fs |-> mk.fs, calls |-> mkcall]
             ELSE IF ~rn.ok
             THEN [raised |-> "OSError", fs |-> mk.fs,
                   calls |-> mkcall \o <<MoveCall(rp)>>]
             ELSE [raised |-> "", fs |-> rn.fs,
                   calls |-> mkcall \o <<MoveCall(rp)>>]
\* do_rename making a directory of new itself, not of its parent.
do_rename_mkdir_new(f, ci, win, rp, ti, rat) ==
    IF ti = rat THEN [raised |-> "SIMULATED_ERROR", fs |-> f, calls |-> << >>]
    ELSE LET mk == IF rp.create_parent THEN FsMkdir(f, ci, rp.new)
                   ELSE [ok |-> TRUE, fs |-> f]
             mkcall == IF rp.create_parent THEN <<"mkdir">> ELSE << >>
             rn == FsRename(mk.fs, ci, win, rp.orig, rp.new, rp.clobber)
         IN  IF ~mk.ok
             THEN [raised |-> "OSError", fs |-> mk.fs, calls |-> mkcall]
             ELSE IF ~rn.ok
             THEN [raised |-> "OSError", fs |-> mk.fs,
                   calls |-> mkcall \o <<MoveCall(rp)>>]
             ELSE [raised |-> "", fs |-> rn.fs,
                   calls |-> mkcall \o <<MoveCall(rp)>>]
\* do_rename: [raised |-> the exception or "", fs |-> the file system,
\* calls |-> the file-system calls made, in order].
do_rename(f, ci, win, rp, ti, rat) ==
    IF ti = rat THEN [raised |-> "SIMULATED_ERROR", fs |-> f, calls |-> << >>]
    ELSE LET mk == IF rp.create_parent THEN FsMkdir(f, ci, Parent(rp.new))
                   ELSE [ok |-> TRUE, fs |-> f]
             mkcall == IF rp.create_parent THEN <<"mkdir">> ELSE << >>
             rn == FsRename(mk.fs, ci, win, rp.orig, rp.new, rp.clobber)
         IN  IF ~mk.ok
             THEN [raised |-> "OSError", fs |-> mk.fs, calls |-> mkcall]
             ELSE IF ~rn.ok
             THEN [raised |-> "OSError", fs |-> mk.fs,
                   calls |-> mkcall \o <<MoveCall(rp)>>]
             ELSE [raised |-> "", fs |-> rn.fs,
                   calls |-> mkcall \o <<MoveCall(rp)>>]

\* The loop body with tracking_index assigned after do_rename returns.
rename_turn_late(f, ci, win, rp, i, old, rat) ==
    LET r == do_rename(f, ci, win, rp, old, rat)
    IN  [tracking_index |-> IF r.raised = "" THEN i ELSE old,
         at |-> old, raised |-> r.raised, fs |-> r.fs,
         calls |-> r.calls]

\* The body of the loop of rename_paths for pair i (from 0), old being
\* tracking_index before: the index is set, then do_rename is called.
\* at is the tracking_index that do_rename finds.
rename_turn(f, ci, win, rp, i, old, rat) ==
    LET r == do_rename(f, ci, win, rp, i, rat)
    IN  [tracking_index |-> i, at |-> i, raised |-> r.raised, fs |-> r.fs,
         calls |-> r.calls]

\* The loop going on to the next pair after do_rename raised.
DoRename_continue ==
    /\ pc = "rename"
    /\ loop_i < Len(rps)
    /\ LET r == rename_turn(fs, fs_ci, fs_win, rps[loop_i + 1], loop_i,
                            tracking_index, raise_at)
       IN  /\ tracking_index' = r.tracking_index
           /\ attempts' = Append(attempts, [i |-> loop_i, at |-> r.at,
                                          calls |-> r.calls])
           /\ fs' = r.fs
           /\ raised' = r.raised
           /\ renamed' = IF r.raised = "" THEN Append(renamed, loop_i)
                         ELSE renamed
           /\ loop_i' = loop_i + 1
           /\ UNCHANGED pc
    /\ UNCHANGED <<rps, problems, prefix_len, has_prepared, has_renamed,
                   step_i, caller, raised_problems, fs_changes>>
    /\ UNCHANGED config_vars

\* One turn of the loop of rename_paths over the pairs.
DoRename ==
    /\ pc = "rename"
    /\ loop_i < Len(rps)
    /\ LET r == rename_turn(fs, fs_ci, fs_win, rps[loop_i + 1], loop_i,
                            tracking_index, raise_at)
       IN  /\ tracking_index' = r.tracking_index
           /\ attempts' = Append(attempts, [i |-> loop_i, at |-> r.at,
                                          calls |-> r.calls])
           /\ fs' = r.fs
           /\ raised' = r.raised
           /\ IF r.raised = ""
              THEN /\ renamed' = Append(renamed, loop_i)
                   /\ loop_i' = loop_i + 1
                   /\ UNCHANGED pc
              ELSE /\ pc' = "idle"
                   /\ UNCHANGED <<renamed, loop_i>>
    /\ UNCHANGED <<rps, problems, prefix_len, has_prepared, has_renamed,
                   step_i, caller, raised_problems, fs_changes>>
    /\ UNCHANGED config_vars

\* The end of the loop putting tracking_index back to not_started.
RenameDone_reset ==
    /\ pc = "rename"
    /\ loop_i = Len(rps)
    /\ tracking_index' = TRACKING_not_started
    /\ pc' = "idle"
    /\ UNCHANGED <<rps, problems, prefix_len, has_prepared, has_renamed,
                   fs, step_i, caller, loop_i, raised, raised_problems,
                   attempts, renamed, fs_changes>>
    /\ UNCHANGED config_vars

\* The end of the loop making the plan ready for another prepare().
RenameDone_forgets ==
    /\ pc = "rename"
    /\ loop_i = Len(rps)
    /\ tracking_index' = TRACKING_done
    /\ has_prepared' = FALSE
    /\ pc' = "idle"
    /\ UNCHANGED <<rps, problems, prefix_len, has_renamed,
                   fs, step_i, caller, loop_i, raised, raised_problems,
                   attempts, renamed, fs_changes>>
    /\ UNCHANGED config_vars
\* The loop of rename_paths is over.
RenameDone ==
    /\ pc = "rename"
    /\ loop_i = Len(rps)
    /\ tracking_index' = TRACKING_done
    /\ pc' = "idle"
    /\ UNCHANGED <<rps, problems, prefix_len, has_prepared, has_renamed,
                   fs, step_i, caller, loop_i, raised, raised_problems,
                   attempts, renamed, fs_changes>>
    /\ UNCHANGED config_vars
\* Another program creates or removes a path after the plan was prepared
\* and before it is executed.
FsTouch == {<<"a">>, <<"x">>}

FsChange ==
    /\ pc = "idle"
    /\ has_prepared /\ ~has_renamed
    /\ fs_changes < MaxFsChanges
    /\ \E p \in FsTouch :
          fs' = IF Resolve(fs, fs_ci, p) # NOENT
                THEN Without(fs, Resolve(fs, fs_ci, p))
                ELSE (p :> "file") @@ fs
    /\ fs_changes' = fs_changes + 1
    /\ UNCHANGED <<rps, problems, prefix_len, has_prepared, has_renamed,
                   tracking_index, pc, step_i, caller, loop_i, raised,
                   raised_problems, attempts, renamed>>
    /\ UNCHANGED config_vars

\* ------------------------------------------------------------------------
\* Initial states: a plan as the constructor leaves it, and a file system.
\* ------------------------------------------------------------------------
\* The control lists tried.  Each is a tuple of ProblemControl values.
ControlChoices ==
    { << >>,
      <<ProblemControl("skip", "missing"), ProblemControl("skip", "equal")>>,
      <<ProblemControl("skip", "existing"), ProblemControl("skip", "parent"),
        ProblemControl("skip", "colliding")>>,
      <<ProblemControl("clobber", "existing"), ProblemControl("create", "parent"),
        ProblemControl("clobber", "colliding")>>,
      <<ProblemControl("skip", "missing"), ProblemControl("skip", "equal"),
        ProblemControl("clobber", "existing"), ProblemControl("create", "parent"),
        ProblemControl("skip", "colliding")>> }

LookupOf(pcs) == build_control_lookup(pcs, Len(pcs)).lookup

\* Sequences of 1..MaxPairs elements of S.
SeqsUpTo(S) == UNION {[1..n -> S] : n \in 1..MaxPairs}

\* a and b are files, d is a directory holding d/a, s is neither.
FsBase ==
    (<<"a">> :> "file") @@ (<<"b">> :> "file") @@ (<<"d">> :> "dir") @@
    (<<"d", "/", "a">> :> "file") @@ (<<"s">> :> "other")

InitPlan(lines, struct, rcode, fcode, start, stp, pcs, rat, f, ci, win) ==
    /\ inputs = lines
    /\ structure = struct
    /\ rename_code = rcode
    /\ filter_code = fcode
    /\ seq_start = start
    /\ seq_step = stp
    /\ controls = pcs
    /\ control_lookup = LookupOf(pcs)
    /\ raise_at = rat
    /\ rps = << >>
    /\ problems = EmptyLedger
    /\ prefix_len = 0
    /\ has_prepared = FALSE
    /\ has_renamed = FALSE
    /\ tracking_index = TRACKING_not_started
    /\ fs = f
    /\ fs_ci = ci
    /\ fs_win = win
    /\ pc = "idle"
    /\ step_i = 0
    /\ caller = ""
    /\ loop_i = 0
    /\ raised = ""
    /\ raised_problems = << >>
    /\ attempts = << >>
    /\ renamed = << >>
    /\ fs_changes = 0

\* Plans over given (orig, new) pairs, in the flat structure.
PlainOrigs == {<<"a">>, <<"b">>, <<"c">>}
PlainNews == {<<"a">>, <<"x">>, <<"n", "/", "x">>}

InitPlain ==
    \E ps \in SeqsUpTo(PlainOrigs \X PlainNews), pcs \in ControlChoices :
        InitPlan([i \in 1..Len(ps) |-> ps[i][1]] \o
                 [i \in 1..Len(ps) |-> ps[i][2]],
                 "flat", "", "", 1, 1, pcs, RAISE_AT_none,
                 FsBase, FALSE, FALSE)

\* Plans with a simulated error at some index.
InitRaise ==
    \E ps \in SeqsUpTo({<<"a">>, <<"b">>} \X {<<"x">>, <<"y">>}),
       rat \in 0..MaxPairs :
        InitPlan([i \in 1..Len(ps) |-> ps[i][1]] \o
                 [i \in 1..Len(ps) |-> ps[i][2]],
                 "flat", "", "", 1, 1, << >>, rat, FsBase, FALSE, FALSE)

\* Plans whose news come from user code, with or without a filter.
RenameCodes ==
    {SYNTAX_ERROR, "return o + o", "return plan.strip_prefix(o)",
     "return 'x' * seq", "return o[1] + 'x'", "return len(o) > 1 and 'x'"}
FilterCodes ==
    {"", SYNTAX_ERROR, "return o != 'b'", "return o[1] != 'b'", "return seq > 1"}
CodeOrigs == {<<"a">>, <<"b">>, <<"d", "/", "a">>}
CodeControls ==
    { << >>,
      <<ProblemControl("skip", "filter_code_invalid"),
        ProblemControl("skip", "rename_code_invalid")>>,
      <<ProblemControl("keep", "filter_code_invalid"),
        ProblemControl("skip", "colliding")>> }

InitCode ==
    \E os \in SeqsUpTo(CodeOrigs), rc \in RenameCodes, fc \in FilterCodes,
       pcs \in CodeControls :
        InitPlan(os, "flat", rc, fc, 1, 1, pcs, RAISE_AT_none,
                 FsBase, FALSE, FALSE)

\* Plans on file systems that may ignore case.
CaseOrigs == {<<"a">>, <<"b">>}
CaseNews == {<<"A">>, <<"x">>, <<"X">>}
KindControls ==
    { << >>,
      <<ProblemControl("clobber", "existing"),
        ProblemControl("clobber", "existing_diff"),
        ProblemControl("create", "parent")>> }

InitCase ==
    \E ps \in SeqsUpTo(CaseOrigs \X CaseNews), pcs \in KindControls,
       ci \in BOOLEAN, win \in BOOLEAN :
        /\ win => ci
        /\ InitPlan([i \in 1..Len(ps) |-> ps[i][1]] \o
                    [i \in 1..Len(ps) |-> ps[i][2]],
                    "flat", "", "", 1, 1, pcs, RAISE_AT_none, FsBase, ci, win)

\* Plans that rename directories, their contents and special files.
KindOrigs == {<<"d">>, <<"d", "/", "a">>, <<"s">>}
KindNews == {<<"x">>, <<"d">>, <<"x", "/", "a">>}

InitKinds ==
    \E ps \in SeqsUpTo(KindOrigs \X KindNews), pcs \in KindControls :
        InitPlan([i \in 1..Len(ps) |-> ps[i][1]] \o
                 [i \in 1..Len(ps) |-> ps[i][2]],
                 "flat", "", "", 1, 1, pcs, RAISE_AT_none,
                 FsBase, FALSE, FALSE)

\* Plans of one pair more, all origs existing, with news that may collide.
CollideOrigs == <<(<<"a">>), (<<"b">>), (<<"d">>), (<<"d", "/", "a">>)>>
CollideControls ==
    { << >>,
      <<ProblemControl("skip", "colliding")>>,
      <<ProblemControl("clobber", "colliding")>> }

InitCollide ==
    \E ns \in [1..(MaxPairs + 1) -> {<<"x">>, <<"y">>}],
       pcs \in CollideControls :
        InitPlan(SubSeq(CollideOrigs, 1, MaxPairs + 1) \o ns,
                 "flat", "", "", 1, 1, pcs, RAISE_AT_none,
                 FsBase, FALSE, FALSE)

\* Plans whose paths lie inside one another: a new below a directory that
\* another pair renames, an orig below such a directory, a new two levels
\* below a missing directory.
NestedOrigs == {<<"a">>, <<"d">>, <<"d", "/", "a">>}
NestedNews ==
    {<<"x">>, <<"d">>, <<"d", "/", "x">>, <<"n", "/", "m", "/", "x">>}
NestedControls ==
    { << >>,
      <<ProblemControl("skip", "existing"),
        ProblemControl("skip", "existing_diff"),
        ProblemControl("create", "parent")>> }

InitNested ==
    \E ps \in SeqsUpTo(NestedOrigs \X NestedNews), pcs \in NestedControls :
        InitPlan([i \in 1..Len(ps) |-> ps[i][1]] \o
                 [i \in 1..Len(ps) |-> ps[i][2]],
                 "flat", "", "", 1, 1, pcs, RAISE_AT_none,
                 FsBase, FALSE, FALSE)

\* Plans over any lines, blank ones included, of any count up to the lines
\* of MaxPairs pairs.
LineChoices == {<<"a">>, <<"x">>, << >>}

InitLines ==
    \E n \in 1..(2 * MaxPairs) : \E ls \in [1..n -> LineChoices] :
        InitPlan(ls, "flat", "", "", 1, 1, << >>, RAISE_AT_none,
                 FsBase, FALSE, FALSE)

\* Plans in the structures that read blank lines, with no lines at all too,
\* alone, in rename-only mode or with a filter that does not compile.
StructuredCodes ==
    {<<"", "">>, <<"return o + o", "">>, <<"", SYNTAX_ERROR>>,
     <<SYNTAX_ERROR, "">>}

InitStructured ==
    \E st \in {"flat", "paragraphs", "pairs"}, n \in 0..(MaxPairs + 2),
       code \in StructuredCodes :
        \E ls \in [1..n -> LineChoices] :
            InitPlan(ls, st, code[1], code[2], 1, 1, << >>, RAISE_AT_none,
                     FsBase, FALSE, FALSE)

\* Plans over tab-delimited rows: a good row, a row of one cell, a row with
\* an empty cell, a row of three cells, a blank line.
RowChoices ==
    {<<"a", TAB, "x">>, <<"a">>, <<"a", TAB>>, <<"a", TAB, "x", TAB, "x">>,
     << >>}

InitRows ==
    \E n \in 0..(MaxPairs + 1), fc \in {"", SYNTAX_ERROR} :
        \E ls \in [1..n -> RowChoices] :
            InitPlan(ls, "rows", "", fc, 1, 1, << >>, RAISE_AT_none,
                     FsBase, FALSE, FALSE)

\* Constructor calls with any controls, applicable or not, bound once or
\* twice.  A call that raises leaves no plan: pc is "no_plan", raised holds
\* the error, and nothing can be called.
ControlNames ==
    {ProblemControl(c, k) :
        c \in CONTROLS,
        k \in {"filter_code_invalid", "equal", "missing", "parent",
               "existing", "colliding"}}

InitControls ==
    \E pcs \in SeqsUpTo(ControlNames) :
        LET built == ConstructControls(pcs)
        IN  IF built.error = ""
            THEN InitPlan(<<(<<"a">>), (<<"b">>)>>, "flat", "", "", 1, 1, pcs,
                          RAISE_AT_none, FsBase, FALSE, FALSE)
            ELSE /\ inputs = <<(<<"a">>), (<<"b">>)>>
                 /\ structure = "flat"
                 /\ rename_code = ""
                 /\ filter_code = ""
                 /\ seq_start = 1
                 /\ seq_step = 1
                 /\ controls = pcs
                 /\ control_lookup = << >>
                 /\ raise_at = RAISE_AT_none
                 /\ rps = << >>
                 /\ problems = EmptyLedger
                 /\ prefix_len = 0
                 /\ has_prepared = FALSE
                 /\ has_renamed = FALSE
                 /\ tracking_index = TRACKING_not_started
                 /\ fs = FsBase
                 /\ fs_ci = FALSE
                 /\ fs_win = FALSE
                 /\ pc = "no_plan"
                 /\ step_i = 0
                 /\ caller = ""
                 /\ loop_i = 0
                 /\ raised = built.error
                 /\ raised_problems = << >>
                 /\ attempts = << >>
                 /\ renamed = << >>
                 /\ fs_changes = 0

\* Plans whose hooks read the sequence number, with other starts and steps.
SeqStarts == {1, 2}
SeqSteps == {1, 2}

InitSeq ==
    \E os \in SeqsUpTo({<<"a">>, <<"b">>}),
       fc \in {"", "return seq > 1", "return o != 'b'"},
       start \in SeqStarts, stp \in SeqSteps :
        InitPlan(os, "flat", "return 'x' * seq", fc, start, stp, << >>,
                 RAISE_AT_none, FsBase, FALSE, FALSE)

\* Plans of one pair more whose origs share a prefix once the filter has
\* dropped b.
PrefixOrigs == {<<"b">>, <<"d", "/", "a">>, <<"d", "/", "b">>}

InitPrefix ==
    \E os \in [1..(MaxPairs + 1) -> PrefixOrigs],
       fc \in {"", "return o != 'b'"} :
        InitPlan(os, "flat", "return plan.strip_prefix(o)", fc, 1, 1, << >>,
                 RAISE_AT_none, FsBase, FALSE, FALSE)

\* Plans of three existing origs in every order, with a filter that drops b
\* and a rename hook that numbers the pairs it is given.
OrderOrigs == {<<"a">>, <<"b">>, <<"d", "/", "a">>}

InitOrder ==
    \E os \in {f \in [1..3 -> OrderOrigs] : \A i, j \in 1..3 : f[i] = f[j] => i = j} :
        InitPlan(os, "flat", "return 'x' * seq", "return o != 'b'", 1, 1, << >>,
                 RAISE_AT_none, FsBase, FALSE, FALSE)

\* Constructor calls that bind a control to type or rename_code_bad_return,
\* or bind nothing to them, for plans whose pairs run into those problems:
\* s is neither a file nor a directory, and the hook returns False for a.
UncontrollableNames ==
    {ProblemControl(c, k) :
        c \in CONTROLS, k \in {"type", "rename_code_bad_return"}}
        \cup {ProblemControl("skip", "missing")}

UncontrollablePlans ==
    { [lines |-> <<(<<"s">>), (<<"x">>)>>, code |-> ""],
      [lines |-> <<(<<"s">>), (<<"a">>), (<<"x">>), (<<"y">>)>>, code |-> ""],
      [lines |-> <<(<<"a">>), (<<"d", "/", "a">>)>>,
       code |-> "return len(o) > 1 and 'x'"] }

InitUncontrollable ==
    \E pl \in UncontrollablePlans,
       pcs \in {<< >>} \cup {<<n>> : n \in UncontrollableNames} :
        LET built == ConstructControls(pcs)
        IN  IF built.error = ""
            THEN InitPlan(pl.lines, "flat", pl.code, "", 1, 1, pcs,
                          RAISE_AT_none, FsBase, FALSE, FALSE)
            ELSE /\ inputs = pl.lines
                 /\ structure = "flat"
                 /\ rename_code = pl.code
                 /\ filter_code = ""
                 /\ seq_start = 1
                 /\ seq_step = 1
                 /\ controls = pcs
                 /\ control_lookup = << >>
                 /\ raise_at = RAISE_AT_none
                 /\ rps = << >>
                 /\ problems = EmptyLedger
                 /\ prefix_len = 0
                 /\ has_prepared = FALSE
                 /\ has_renamed = FALSE
                 /\ tracking_index = TRACKING_not_started
                 /\ fs = FsBase
                 /\ fs_ci = FALSE
                 /\ fs_win = FALSE
                 /\ pc = "no_plan"
                 /\ step_i = 0
                 /\ caller = ""
                 /\ loop_i = 0
                 /\ raised = built.error
                 /\ raised_problems = << >>
                 /\ attempts = << >>
                 /\ renamed = << >>
                 /\ fs_changes = 0

Init ==
    \/ InitPlain \/ InitRaise \/ InitCode \/ InitCase \/ InitKinds
    \/ InitCollide \/ InitNested \/ InitLines
    \/ InitStructured \/ InitRows \/ InitControls
    \/ InitSeq \/ InitPrefix \/ InitOrder \/ InitUncontrollable

Next == Prepare \/ PrepareStep \/ RenamePaths \/ DoRename \/ RenameDone
        \/ FsChange

Spec == Init /\ [][Next]_vars
\* ------------------------------------------------------------------------
\* Properties.
\* ------------------------------------------------------------------------
Indexes(n) == [k \in 1..n |-> k - 1]

\* The first call of rename_paths() has started and has come to its end.
Executed == has_renamed /\ pc = "idle"

\* C1: rename_paths() takes effect at most once per plan.  Once a first call
\* has ended (it completed, raised prepare_failed or raised midway), no step
\* changes the file system, tracking_index or the record of attempts, and
\* every further call of rename_paths() raises rename_done_already.
C1_RenameOnce ==
    [][Executed =>
         /\ pc' = "idle"
         /\ UNCHANGED <<fs, tracking_index, attempts, renamed>>
         /\ (RenamePaths => raised' = "rename_done_already")]_vars

\* A second call was refused after the first call had raised midway.
C1_Witness ==
    /\ raised = "rename_done_already"
    /\ tracking_index \notin {TRACKING_not_started, TRACKING_done}
    /\ renamed # << >>

\* C2: rename_paths() on a plan with an uncontrolled problem raises
\* prepare_failed carrying exactly the uncontrolled problems, attempts no
\* rename and leaves tracking_index at not_started.
C2_PrepareFailed ==
    (Executed /\ failed(problems)) =>
        /\ raised \in {"prepare_failed", "rename_done_already"}
        /\ raised = "prepare_failed" =>
              raised_problems = uncontrolled_problems(problems)
        /\ attempts = << >>
        /\ renamed = << >>
        /\ tracking_index = TRACKING_not_started

\* rename_paths() raised prepare_failed with two uncontrolled problems, on
\* a file system that has an orig and lacks another.
C2_Witness ==
    /\ raised = "prepare_failed"
    /\ Len(raised_problems) = 2
    /\ raised_problems[1].name = "missing"
    /\ path_exists(fs, fs_ci, <<"a">>, TRUE)

\* C3: when the operation for pair i raises, the error reaches the caller,
\* tracking_index stays at i, exactly the pairs before i have been renamed
\* and no pair after i has been attempted.
C3_RaiseMidway ==
    /\ (pc = "idle" /\ raised \in {"SIMULATED_ERROR", "OSError"}) =>
          /\ tracking_index \in 0..(Len(rps) - 1)
          /\ renamed = Indexes(tracking_index)
          /\ [k \in 1..Len(attempts) |-> attempts[k].i]
                = Indexes(tracking_index + 1)
    /\ (Executed /\ ~failed(problems) /\ tracking_index # TRACKING_done) =>
          raised \in {"SIMULATED_ERROR", "OSError", "rename_done_already"}

\* The rename of the second pair raised an OSError after the first pair
\* had been renamed.
C3_Witness ==
    /\ pc = "idle"
    /\ raised = "OSError"
    /\ tracking_index = 1
    /\ renamed = <<0>>

\* C4: on a plan that is not failed, the pairs are attempted in the order
\* of rps, do_rename for pair i finds tracking_index = i, and tracking_index
\* is done only after every pair has been renamed once.
C4_InOrder ==
    /\ \A k \in 1..Len(attempts) :
          attempts[k].i = k - 1 /\ attempts[k].at = k - 1
    /\ attempts # << >> => ~failed(problems)
    /\ tracking_index = TRACKING_done =>
          /\ ~failed(problems)
          /\ renamed = Indexes(Len(rps))
    /\ (Executed /\ ~failed(problems) /\ raised = "") =>
          tracking_index = TRACKING_done

\* A plan of two pairs was executed to the end.
C4_Witness ==
    /\ tracking_index = TRACKING_done
    /\ Len(rps) = 2
    /\ renamed = <<0, 1>>

\* C5: tracking_index never decreases in the order
\* not_started < 0 < 1 < ... < len(rps) - 1 < done.
C5_Monotone ==
    [][TrackingRank(tracking_index', Len(rps'))
         >= TrackingRank(tracking_index, Len(rps))]_vars

\* tracking_index has gone from not_started through 0 and 1 to done.
C5_Witness ==
    /\ tracking_index = TRACKING_done
    /\ Len(attempts) = 2
    /\ has_prepared
\* C6: prepare() works only on its first call.  Once that call has
\* returned, no later call of prepare() or rename_paths() and no change of
\* the file system alters rps, the problem ledger or prefix_len.
C6_PrepareOnce ==
    [][(has_prepared /\ pc # "prepare") =>
          UNCHANGED <<rps, problems, prefix_len>>]_vars

\* A prepared plan with a recorded problem was executed after the file
\* system had changed.
C6_Witness ==
    /\ Executed
    /\ fs_changes > 0
    /\ problems["skip"] # << >>
    /\ tracking_index = TRACKING_done

\* C7: every recorded problem lies in the bucket of the control that the
\* policy binds to its kind, and in the uncontrolled bucket exactly when
\* its kind has no binding; the renames are attempted only when the
\* uncontrolled bucket is empty.
C7_Buckets ==
    /\ \A c \in DOMAIN problems : \A k \in 1..Len(problems[c]) :
          /\ ControlFor(control_lookup, problems[c][k].name) = c
          /\ c = UNCONTROLLED <=> problems[c][k].name \notin DOMAIN control_lookup
    /\ (pc = "rename" \/ attempts # << >>) => problems[UNCONTROLLED] = << >>
    /\ (Executed /\ problems[UNCONTROLLED] # << >>) =>
          raised \in {"prepare_failed", "rename_done_already"}

\* Problems were filed under skip and under clobber, and none uncontrolled.
C7_Witness ==
    /\ problems["skip"] # << >>
    /\ problems["clobber"] # << >>
    /\ problems[UNCONTROLLED] = << >>
    /\ has_prepared /\ pc # "prepare"

\* prepare() has returned and the file system is as prepare() saw it.
JustPrepared ==
    /\ has_prepared
    /\ pc # "prepare"
    /\ fs_changes = 0
    /\ attempts = << >>

OrigsExistAndDiffer ==
    \A k \in 1..Len(rps) :
        /\ path_exists(fs, fs_ci, rps[k].orig, FALSE)
        /\ rps[k].new # rps[k].orig

\* C8 as stated: after prepare() on any plan, every pair of rps has an orig
\* that exists (non-strictly) and a new that differs from it.
C8_AnyPlan == JustPrepared => OrigsExistAndDiffer

\* C8 amended: after prepare() on a plan that is not failed, every pair of
\* rps has an orig that exists (non-strictly) and a new that differs from it.
C8_NotFailed == (JustPrepared /\ ~failed(problems)) => OrigsExistAndDiffer

\* A plan that is not failed kept one pair and dropped another whose orig
\* is missing.
C8_Witness ==
    /\ JustPrepared
    /\ ~failed(problems)
    /\ Len(rps) = 1
    /\ \E k \in 1..Len(problems["skip"]) : problems["skip"][k].name = "missing"

ClobbersExisting ==
    \E n \in {"existing", "existing_diff"} :
        ControlFor(control_lookup, n) = "clobber"

NoNewExists ==
    \A k \in 1..Len(rps) : ~path_exists(fs, fs_ci, rps[k].new, TRUE)

\* C9 as stated: after prepare() on any plan whose policy does not bind
\* existing or existing_diff to clobber, no pair of rps has a new that
\* strictly exists.
C9_AnyPlan == (JustPrepared /\ ~ClobbersExisting) => NoNewExists

\* C9 amended: the same, after prepare() on a plan that is not failed.
C9_NotFailed ==
    (JustPrepared /\ ~ClobbersExisting /\ ~failed(problems)) => NoNewExists

\* A plan that is not failed dropped a pair whose new exists and kept one.
C9_Witness ==
    /\ JustPrepared
    /\ ~ClobbersExisting
    /\ ~failed(problems)
    /\ rps # << >>
    /\ \E k \in 1..Len(problems["skip"]) : problems["skip"][k].name = "existing"

ClobbersColliding ==
    \E n \in {"colliding", "colliding_diff"} :
        ControlFor(control_lookup, n) = "clobber"

NewsDistinct ==
    \A j, k \in 1..Len(rps) : j # k => rps[j].new # rps[k].new

\* C10 as stated: after prepare() on any plan whose policy does not bind
\* colliding or colliding_diff to clobber, no two pairs of rps have the
\* same new.
C10_AnyPlan == (JustPrepared /\ ~ClobbersColliding) => NewsDistinct

\* C10 amended: the same, after prepare() on a plan that is not failed.
C10_NotFailed ==
    (JustPrepared /\ ~ClobbersColliding /\ ~failed(problems)) => NewsDistinct

\* A plan that is not failed dropped two colliding pairs and kept a third.
C10_Witness ==
    /\ JustPrepared
    /\ ~ClobbersColliding
    /\ ~failed(problems)
    /\ rps # << >>
    /\ Len(problems["skip"]) >= 2
    /\ \A k \in 1..Len(problems["skip"]) : problems["skip"][k].name = "colliding"

\* The problems of bucket c whose kind is in names and whose pair is rp
\* (the same orig and new; the flags of a pair change as it is controlled).
ProblemsOf(c, names, rp) ==
    {k \in 1..Len(problems[c]) :
        /\ problems[c][k].name \in names
        /\ problems[c][k].rp # << >>
        /\ problems[c][k].rp[1].orig = rp.orig
        /\ problems[c][k].rp[1].new = rp.new}

NewProblemNames == {"existing", "existing_diff", "colliding", "colliding_diff"}

\* C11: a pair of rps has create_parent only if the policy binds parent to
\* create and a parent problem of that pair is in the create bucket; it has
\* clobber only if an existing, existing_diff, colliding or colliding_diff
\* problem of that pair is in the clobber bucket under a clobber binding.
C11_Flags ==
    \A k \in 1..Len(rps) :
        /\ rps[k].create_parent =>
              /\ ControlFor(control_lookup, "parent") = "create"
              /\ ProblemsOf("create", {"parent"}, rps[k]) # {}
        /\ rps[k].clobber =>
              \E j \in ProblemsOf("clobber", NewProblemNames, rps[k]) :
                  ControlFor(control_lookup, problems["clobber"][j].name)
                      = "clobber"

\* A prepared plan holds a pair with clobber alone and a pair with
\* create_parent alone.
C11_Witness ==
    /\ has_prepared /\ pc = "idle"
    /\ Len(rps) = 2
    /\ rps[1].clobber /\ ~rps[1].create_parent
    /\ rps[2].create_parent /\ ~rps[2].clobber

\* The position in rp_steps of the step that reports a problem kind; 0 for
\* the kinds that belong to the plan and not to a pair.
StepOf(pname) ==
    CASE pname = "filter_code_invalid" -> 1
      [] pname \in {"rename_code_invalid", "rename_code_bad_return"} -> 2
      [] pname = "missing" -> 3
      [] pname = "type" -> 4
      [] pname = "equal" -> 5
      [] pname \in {"existing", "existing_diff"} -> 6
      [] pname = "parent" -> 7
      [] pname \in {"colliding", "colliding_diff"} -> 8
      [] OTHER -> 0

\* The pairs as parsed, and how many of them the filter hook rejects.
Parsed == parse_inputs(inputs, structure, rename_code).rps

FilteredOut ==
    {k \in 1..Len(Parsed) :
        /\ filter_code # ""
        /\ FilterCall(filter_code, Parsed[k].orig,
                      SeqVal(seq_start, seq_step, k - 1),
                      compute_prefix_len(Parsed)) = "false"}

\* The pair q is the pair P of a skipped problem: the same orig and new (a
\* pair skipped before the rename hook ran has no new yet).
IsPair(P, q) ==
    /\ q.orig = P.orig
    /\ (q.new = P.new \/ P.new = NONE_NEW)

\* C12: a pair whose problem is bound to skip is no longer in rps and no
\* problem of a later step is recorded for it; every other pair goes on:
\* a plan that is not failed retains all parsed pairs but the filtered and
\* the skipped ones, and a completed execute renames every retained pair.
C12_Skip ==
    /\ \A k \in 1..Len(problems["skip"]) :
          LET p == problems["skip"][k]
              P == p.rp[1]
          IN  /\ p.rp # << >>
              /\ \A j \in 1..Len(rps) : ~IsPair(P, rps[j])
              /\ \A c \in DOMAIN problems : \A i \in 1..Len(problems[c]) :
                    LET q == problems[c][i]
                    IN  (q.rp # << >> /\ IsPair(P, q.rp[1]))
                            => StepOf(q.name) <= StepOf(p.name)
    /\ (has_prepared /\ pc # "prepare" /\ ~failed(problems)) =>
          Len(rps) = Len(Parsed) - Cardinality(FilteredOut)
                        - Len(problems["skip"])
    /\ tracking_index = TRACKING_done => renamed = Indexes(Len(rps))

\* The first pair was skipped for its missing orig and the second pair was
\* renamed.
C12_Witness ==
    /\ tracking_index = TRACKING_done
    /\ Len(Parsed) = 2
    /\ Len(problems["skip"]) = 1
    /\ problems["skip"][1].name = "missing"
    /\ problems["skip"][1].rp[1] = Parsed[1]
    /\ Len(rps) = 1
    /\ rps[1].orig = Parsed[2].orig
    /\ ~path_exists(fs, fs_ci, rps[1].orig, FALSE)
    /\ path_exists(fs, fs_ci, rps[1].new, TRUE)

\* The next turn of prepare()'s loop is the collision step.
CollisionTurn == pc = "prepare" /\ rp_steps[step_i] = "check_new_collisions"

\* The positions in rps of the pairs whose new is also the new of another
\* pair, in order.
Colliders ==
    SelectSeq([k \in 1..Len(rps) |-> k],
              LAMBDA k : \E j \in 1..Len(rps) : j # k /\ rps[j].new = rps[k].new)

NonColliders ==
    SelectSeq([k \in 1..Len(rps) |-> k],
              LAMBDA k : \A j \in 1..Len(rps) : j # k => rps[j].new # rps[k].new)

CollidingNames == {"colliding", "colliding_diff"}

\* The per-pair problems that the turn being taken appends to bucket c.
AddedTo(c) ==
    SelectSeq(SubSeq(problems'[c], Len(problems[c]) + 1, Len(problems'[c])),
              LAMBDA p : p.rp # << >>)

\* C13: the collision step records a colliding or colliding_diff problem for
\* every member of every group of pairs with the same new, the first member
\* included, and for no other pair; with colliding bound to skip exactly the
\* pairs outside such groups stay in rps, and after a completed execute
\* those are renamed while nothing was renamed to the new of the dropped
\* pairs.
C13_Collisions ==
    /\ [][CollisionTurn =>
            /\ Len(AddedTo(ControlFor(control_lookup, "colliding")))
                  = Len(Colliders)
            /\ \A n \in 1..Len(Colliders) :
                  LET p == AddedTo(ControlFor(control_lookup, "colliding"))[n]
                  IN  /\ p.name \in CollidingNames
                      /\ p.rp[1] = rps[Colliders[n]]
            /\ ControlFor(control_lookup, "colliding") = "skip" =>
                  rps' = [n \in 1..Len(NonColliders) |-> rps[NonColliders[n]]]
         ]_vars
    /\ [](/\ tracking_index = TRACKING_done
          /\ ControlFor(control_lookup, "colliding") = "skip"
          /\ fs_changes = 0
          => /\ renamed = Indexes(Len(rps))
             /\ \A k \in 1..Len(problems["skip"]) :
                   problems["skip"][k].name \in CollidingNames =>
                       /\ problems["skip"][k].rp[1].new \in DOMAIN fs
                             => problems["skip"][k].rp[1].new \in DOMAIN FsBase
                       /\ \A j \in 1..Len(rps) :
                             rps[j].new # problems["skip"][k].rp[1].new)

\* Two pairs with the same new were dropped, the first pair of the plan
\* among them, and the third pair was renamed.
C13_Witness ==
    /\ tracking_index = TRACKING_done
    /\ Len(problems["skip"]) = 2
    /\ \A k \in 1..2 : problems["skip"][k].name = "colliding"
    /\ problems["skip"][1].rp[1] = Parsed[1]
    /\ renamed = <<0>>
    /\ path_exists(fs, fs_ci, rps[1].new, TRUE)
    /\ path_exists(fs, fs_ci, Parsed[1].orig, TRUE)
    /\ ~path_exists(fs, fs_ci, Parsed[1].new, FALSE)

\* The all_filtered problems of bucket c.
AllFilteredIn(c) ==
    {k \in 1..Len(problems[c]) : problems[c][k].name = "all_filtered"}

\* C14: a step that leaves rps empty makes prepare() append one all_filtered
\* problem, with no pair, to the uncontrolled bucket and return without
\* running another step; rename_paths() then raises prepare_failed and
\* attempts no rename.
C14_AllFiltered ==
    /\ [][(pc = "prepare" /\ rps' = << >>) =>
            /\ pc' # "prepare"
            /\ Len(problems'[UNCONTROLLED]) = Len(problems[UNCONTROLLED]) + 1
            /\ problems'[UNCONTROLLED][Len(problems'[UNCONTROLLED])]
                  = Problem("all_filtered", << >>)
         ]_vars
    /\ [](/\ \A c \in CONTROLS : AllFilteredIn(c) = {}
          /\ Cardinality(AllFilteredIn(UNCONTROLLED)) <= 1
          /\ AllFilteredIn(UNCONTROLLED) # {} =>
                /\ rps = << >>
                /\ pc # "prepare"
                /\ \A c \in DOMAIN problems : \A k \in 1..Len(problems[c]) :
                      StepOf(problems[c][k].name) <= step_i
                /\ attempts = << >>
                /\ tracking_index = TRACKING_not_started
                /\ Executed =>
                      raised \in {"prepare_failed", "rename_done_already"})

\* Every pair was skipped at the check of the new paths, the plan stopped
\* there and rename_paths() raised prepare_failed with all_filtered.
C14_Witness ==
    /\ Executed
    /\ raised = "prepare_failed"
    /\ raised_problems = <<Problem("all_filtered", << >>)>>
    /\ Len(problems["skip"]) = 2
    /\ rp_steps[step_i] = "check_new_not_exists"
    /\ fs_changes = 0
    /\ fs = FsBase

\* The directories above p, up to the working directory.
RECURSIVE Ancestors(_)
Ancestors(p) ==
    IF Parent(p) = DOT THEN {}
    ELSE {Parent(p)} \cup Ancestors(Parent(p))

\* The file-system calls of a whole do_rename(rp).
CallsFor(rp) ==
    (IF rp.create_parent THEN <<"mkdir">> ELSE << >>)
        \o <<(IF rp.clobber THEN "replace" ELSE "rename")>>

Related(p, q) ==
    LET n(r) == IF fs_ci THEN Fold(r) ELSE r
    IN  IsUnder(n(p), n(q)) \/ IsUnder(n(q), n(p))

\* After a completed execute, pair k has its new in the file system and its
\* orig is gone.
NewExistsOrigGone(k) ==
    /\ path_exists(fs, fs_ci, rps[k].new, FALSE)
    /\ rps[k].orig \notin DOMAIN fs

\* C16 as stated: after rename_paths() has completed, every retained pair's
\* new exists and every retained pair's orig no longer exists.
C16_AllAtTheEnd ==
    tracking_index = TRACKING_done =>
        \A k \in 1..Len(rps) : NewExistsOrigGone(k)

\* C16 amended: every successful rename of a pair leaves its new in the
\* file system, of the kind orig had, and its orig gone; after a completed
\* execute the new of a pair still exists unless a later pair's orig is that
\* path, lies below it or above it, and the orig of a pair is still gone
\* unless a later pair's new is that path, lies below it or above it.
C16_EachInTurn ==
    /\ [][(pc = "rename" /\ renamed' # renamed) =>
            LET rp == rps[loop_i + 1]
            IN  /\ path_exists(fs', fs_ci, rp.new, FALSE)
                /\ KindOf(fs', fs_ci, rp.new) = KindOf(fs, fs_ci, rp.orig)
                /\ rp.orig \notin DOMAIN fs'
         ]_vars
    /\ [](tracking_index = TRACKING_done =>
            \A k \in 1..Len(rps) :
                /\ (\A j \in (k + 1)..Len(rps) :
                        ~Related(rps[j].orig, rps[k].new))
                      => path_exists(fs, fs_ci, rps[k].new, FALSE)
                /\ (\A j \in (k + 1)..Len(rps) :
                        ~Related(rps[j].new, rps[k].orig))
                      => rps[k].orig \notin DOMAIN fs)

\* A completed execute replaced an existing file: the clobbering pair's new
\* exists and its orig is gone.
C16_Witness ==
    /\ tracking_index = TRACKING_done
    /\ \E k \in 1..Len(rps) : rps[k].clobber /\ ~rps[k].create_parent
    /\ \A k \in 1..Len(rps) : NewExistsOrigGone(k)
    /\ fs_changes = 0
    /\ fs # FsBase

\* q is p or lies below p, as the file system compares names.
AtOrBelow(q, p) ==
    LET n(r) == IF fs_ci THEN Fold(r) ELSE r
    IN  IsUnder(n(q), n(p))

\* q is in g exactly as it is in f.
SameIn(f, g, q) == q \in DOMAIN g /\ g[q] = f[q]

\* The origs of the parsed pairs that are not origs of retained pairs: the
\* pairs filtered out or skipped.
DroppedOrigs ==
    {Parsed[k].orig : k \in 1..Len(Parsed)} \ {rps[k].orig : k \in 1..Len(rps)}

\* A retained pair names q: q is its orig or its new or lies below one of
\* them.
NamedByRetained(q) ==
    \E k \in 1..Len(rps) : AtOrBelow(q, rps[k].orig) \/ AtOrBelow(q, rps[k].new)

\* C17 as stated: after execute, the origs of the pairs filtered out or
\* skipped and every path that no retained pair names exist exactly as
\* before.
C17_DroppedUntouched ==
    (has_renamed /\ pc = "idle" /\ fs_changes = 0) =>
        \A q \in DOMAIN FsBase :
            (q \in DroppedOrigs \/ ~NamedByRetained(q)) => SameIn(FsBase, fs, q)

\* C17 amended: each rename changes only the paths at or below the pair's
\* orig or new; it adds only the paths at or below new and, with
\* create_parent, the directories above new, and when it raises it adds
\* nothing but those directories.  After execute every path that is not at
\* or below a retained pair's orig or new, the orig of a filtered or skipped
\* pair included, exists exactly as before.
C17_Frame ==
    /\ [][(pc = "rename" /\ attempts' # attempts) =>
            LET rp == rps[loop_i + 1]
                made == rp.create_parent /\ ControlFor(control_lookup, "parent") = "create"
            IN  /\ \A q \in DOMAIN fs :
                      (~AtOrBelow(q, rp.orig) /\ ~AtOrBelow(q, rp.new))
                          => SameIn(fs, fs', q)
                /\ \A q \in DOMAIN fs' \ DOMAIN fs :
                      \/ made /\ q \in Ancestors(rp.new)
                      \/ renamed' # renamed /\ AtOrBelow(q, rp.new)
         ]_vars
    /\ []((has_renamed /\ fs_changes = 0) =>
            \A q \in DOMAIN FsBase : ~NamedByRetained(q) => SameIn(FsBase, fs, q))

\* A completed execute renamed one pair and left alone the orig of a pair
\* that was skipped because its new exists.
C17_Witness ==
    /\ tracking_index = TRACKING_done
    /\ fs_changes = 0
    /\ Len(rps) = 1
    /\ NewExistsOrigGone(1)
    /\ Len(problems["skip"]) = 1
    /\ problems["skip"][1].name = "existing"
    /\ problems["skip"][1].rp[1].orig \in DroppedOrigs
    /\ SameIn(FsBase, fs, problems["skip"][1].rp[1].orig)

\* C18: no step of prepare() changes the file system, whether prepare() is
\* called by itself or from rename_paths(); until rename_paths() is called
\* the file system is what it was, and once prepare() has returned on a
\* plan that is not failed every pair of rps has its new path.
C18_DryRun ==
    /\ [][(has_prepared' # has_prepared \/ pc = "prepare") => fs' = fs]_vars
    /\ []((~has_renamed /\ fs_changes = 0) => fs = FsBase)
    /\ []((has_prepared /\ pc # "prepare" /\ ~failed(problems)) =>
             /\ rps # << >>
             /\ \A k \in 1..Len(rps) : rps[k].new # NONE_NEW)

\* prepare() alone planned two renames from the rename hook and the file
\* system is as before.
C18_Witness ==
    /\ has_prepared /\ ~has_renamed /\ pc = "idle"
    /\ ~failed(problems)
    /\ fs = FsBase
    /\ rename_code = "return o + o"
    /\ Len(rps) = 2
    /\ \A k \in 1..2 : rps[k].new = rps[k].orig \o rps[k].orig

\* A problem of the kind name is in the ledger for the pair with this orig,
\* or for the plan when orig is << >>.
Recorded(pname, orig) ==
    \E c \in DOMAIN problems : \E i \in 1..Len(problems[c]) :
        /\ problems[c][i].name = pname
        /\ IF orig = << >> THEN problems[c][i].rp = << >>
           ELSE problems[c][i].rp # << >> /\ problems[c][i].rp[1].orig = orig

ParseProblem == parse_inputs(inputs, structure, rename_code).problem

CompileProblem ==
    \/ rename_code # "" /\ ~Compiles(rename_code)
    \/ filter_code # "" /\ ~Compiles(filter_code)

\* C19: a call of prepare() never raises: it leaves untouched what the
\* caller has been raised, each of its turns goes on to the next step or
\* returns, and when it has returned every parse violation, compilation
\* error, hook exception, bad hook result and missing orig is a problem in
\* the ledger.
C19_NeverRaises ==
    /\ [][(Prepare \/ (PrepareStep /\ caller = "prepare")) =>
             /\ raised' = raised
             /\ raised_problems' = raised_problems]_vars
    /\ [](pc = "prepare" => step_i \in 1..Len(rp_steps))
    /\ [][pc = "prepare" =>
             \/ pc' = "prepare" /\ step_i' = step_i + 1
             \/ pc' # "prepare" /\ has_prepared']_vars
    /\ []((has_prepared /\ pc # "prepare") =>
            /\ ParseProblem # "" => Recorded(ParseProblem, << >>)
            /\ (ParseProblem = "" /\ CompileProblem) =>
                  Recorded("user_code_exec", << >>)
            /\ (ParseProblem = "" /\ ~CompileProblem) =>
                  \A k \in 1..Len(Parsed) :
                      LET o == Parsed[k].orig
                          sv == SeqVal(seq_start, seq_step, k - 1)
                          plen == compute_prefix_len(Parsed)
                      IN  /\ (/\ filter_code # ""
                              /\ FilterCall(filter_code, o, sv, plen) = "raise")
                                => Recorded("filter_code_invalid", o)
                          /\ (filter_code = "" /\ rename_code # "") =>
                                LET r == RenameCall(rename_code, o, sv, plen)
                                IN  /\ r.kind = "raise" =>
                                       Recorded("rename_code_invalid", o)
                                    /\ r.kind = "bad" =>
                                       Recorded("rename_code_bad_return", o)
                          /\ (/\ filter_code = "" /\ rename_code = ""
                              /\ ~path_exists(FsBase, fs_ci, o, FALSE))
                                => Recorded("missing", o))

\* A call of prepare() returned without raising, with the exception of the
\* filter hook recorded as an uncontrolled problem.
C19_Witness ==
    /\ has_prepared /\ ~has_renamed /\ pc = "idle"
    /\ caller = "prepare"
    /\ raised = ""
    /\ failed(problems)
    /\ \E i \in 1..Len(problems[UNCONTROLLED]) :
          problems[UNCONTROLLED][i].name = "filter_code_invalid"

\* The plan reads its lines in the flat structure and the lines that are
\* not empty are odd in number.
OddFlat ==
    /\ structure = "flat"
    /\ rename_code = ""
    /\ Len(NonEmpty(inputs)) % 2 = 1

ParsingNames ==
    {"parsing_no_paths", "parsing_paragraphs", "parsing_row",
     "parsing_imbalance"}

\* C20 as stated: with structure flat and an odd number of non-empty lines,
\* parsing reports no error.
C20_OddFlatNoError ==
    (has_prepared /\ pc # "prepare" /\ OddFlat) =>
        \A c \in DOMAIN problems : \A i \in 1..Len(problems[c]) :
            problems[c][i].name \notin ParsingNames

\* C20 amended: with structure flat and an odd number of non-empty lines,
\* the halves that integer division cuts differ in length by one, so
\* parsing records the plan-level problem parsing_imbalance, uncontrolled,
\* and no pair; nothing else is recorded.
C20_OddFlatImbalance ==
    (has_prepared /\ pc # "prepare" /\ OddFlat) =>
        /\ problems[UNCONTROLLED] = <<Problem("parsing_imbalance", << >>)>>
        /\ \A c \in CONTROLS : problems[c] = << >>
        /\ rps = << >>

\* A plan of three lines and a blank one between them was prepared and has
\* failed.
C20_Witness ==
    /\ has_prepared /\ pc = "idle"
    /\ OddFlat
    /\ Len(NonEmpty(inputs)) = 3
    /\ Len(inputs) > 3
    /\ failed(problems)
\* ------------------------------------------------------------------------
\* Parsing of the structures.
\* ------------------------------------------------------------------------
\* The pairs spelled by the non-empty lines taken in order: the first and
\* the second, the third and the fourth, and so on.
PairsInOrder(lines) ==
    LET ne == NonEmpty(lines)
    IN  [k \in 1..(Len(ne) \div 2) |-> RenamePair(ne[2 * k - 1], ne[2 * k])]

\* The parsing problems in the ledger, as the set of their names.
ParsingRecorded ==
    {n \in ParsingNames :
        \E c \in DOMAIN problems : \E i \in 1..Len(problems[c]) :
            problems[c][i].name = n}

\* prepare() has parsed the inputs and is about to run its first step.
JustParsed == pc = "prepare" /\ step_i = 1

\* C21: with structure pairs, blank lines are ignored.  The non-empty lines
\* taken in order alternate orig, new: when prepare() has parsed an even,
\* non-zero number of them, wherever blank lines stand among them, no
\* parsing problem is recorded and the pairs are those of the non-empty
\* lines in order.
C21_BlanksIgnored ==
    (has_prepared /\ structure = "pairs" /\ rename_code = "") =>
        /\ (NonEmpty(inputs) # << >> /\ Len(NonEmpty(inputs)) % 2 = 0) =>
               ParsingRecorded = {}
        /\ JustParsed => rps = PairsInOrder(inputs)

\* A row that does not hold exactly two non-empty cells.
BadRow(row) ==
    /\ row # << >>
    /\ LET cells == Split(row)
       IN  ~(Len(cells) = 2 /\ cells[1] # << >> /\ cells[2] # << >>)

\* The numbers of origs and of news that the structure finds in the lines.
OrigNewCounts ==
    LET ne == NonEmpty(inputs)
    IN  CASE structure = "flat" ->
                <<Len(ne) \div 2, Len(ne) - Len(ne) \div 2>>
          [] structure = "pairs" ->
                <<Len(Alternate(inputs, 1, 0)), Len(Alternate(inputs, 1, 1))>>
          [] structure = "paragraphs" /\ Len(Paragraphs(inputs)) = 2 ->
                <<Len(Paragraphs(inputs)[1]), Len(Paragraphs(inputs)[2])>>
          [] OTHER -> <<0, 0>>

\* The parsing violations of the plan's inputs, as the problem kinds that
\* match them.  In rename-only mode the lines are origs and the only
\* violation is to have none.
ParseViolations ==
    {k \in ParsingNames :
        CASE k = "parsing_no_paths" -> NonEmpty(inputs) = << >>
          [] k = "parsing_paragraphs" ->
                /\ rename_code = ""
                /\ structure = "paragraphs"
                /\ Len(Paragraphs(inputs)) # 2
          [] k = "parsing_row" ->
                /\ rename_code = ""
                /\ structure = "rows"
                /\ \E i \in 1..Len(inputs) : BadRow(inputs[i])
          [] k = "parsing_imbalance" ->
                /\ rename_code = ""
                /\ OrigNewCounts[1] # OrigNewCounts[2]}

\* C22: once prepare() has been called on inputs with a parsing violation,
\* the ledger holds exactly one problem: it is uncontrolled, of a kind that
\* matches a violation of the inputs, and has no pair.  rps is empty and
\* prepare() never enters its loop over the steps, so no hook is compiled
\* (no user_code_exec problem, even for a snippet that does not compile) or
\* called and no per-pair check runs.  Inputs without a violation record no
\* parsing problem.
C22_ParseViolation ==
    /\ (has_prepared /\ ParseViolations # {}) =>
           /\ rps = << >>
           /\ pc # "prepare"
           /\ step_i = 0
           /\ \A c \in CONTROLS : problems[c] = << >>
           /\ Len(problems[UNCONTROLLED]) = 1
           /\ problems[UNCONTROLLED][1].rp = << >>
           /\ problems[UNCONTROLLED][1].name \in ParseViolations
    /\ (has_prepared /\ ParseViolations = {}) => ParsingRecorded = {}

\* A row of three cells was given with a filter that does not compile, and
\* rename_paths() has raised prepare_failed for the parsing_row problem.
C22_Witness ==
    /\ has_renamed
    /\ structure = "rows"
    /\ filter_code = SYNTAX_ERROR
    /\ \E i \in 1..Len(inputs) : Len(Split(inputs[i])) = 3
    /\ ParsingRecorded = {"parsing_row"}
    /\ raised = "prepare_failed"

\* C23: when the inputs hold no non-empty line, prepare() records
\* parsing_no_paths and no other parsing kind, under every structure and in
\* rename-only mode.
C23_NoPaths ==
    (has_prepared /\ NonEmpty(inputs) = << >>) =>
        ParsingRecorded = {"parsing_no_paths"}

\* ------------------------------------------------------------------------
\* The controls given to the constructor.
\* ------------------------------------------------------------------------
\* Some problem kind is bound by two entries of the control list.
BoundTwice(pcs) ==
    \E i, j \in 1..Len(pcs) : i < j /\ pcs[i].pname = pcs[j].pname

AllApplicable(pcs) ==
    \A i \in 1..Len(pcs) : pcs[i].control \in Applicable(pcs[i].pname)

\* C24: a constructor call whose controls (each applicable to its kind) bind
\* one kind twice raises conflicting_controls and yields no plan: nothing is
\* ever prepared or renamed.  Controls that bind every kind at most once are
\* accepted, and the plan's lookup binds each kind to the control given.
C24_Conflicting ==
    /\ [](AllApplicable(controls) /\ BoundTwice(controls) =>
            /\ pc = "no_plan"
            /\ raised = "conflicting_controls"
            /\ ~has_prepared /\ ~has_renamed /\ fs = FsBase)
    /\ [](AllApplicable(controls) /\ ~BoundTwice(controls) =>
            /\ pc # "no_plan"
            /\ DOMAIN control_lookup =
                   {controls[i].pname : i \in 1..Len(controls)}
            /\ \A i \in 1..Len(controls) :
                   control_lookup[controls[i].pname] = controls[i].control)
    /\ [][pc # "no_plan"]_vars

\* The constructor was given skip and create for parent and has raised.
C24_Witness ==
    /\ controls = <<ProblemControl("skip", "parent"),
                    ProblemControl("create", "parent")>>
    /\ pc = "no_plan"
    /\ raised = "conflicting_controls"

\* C25: a constructor call with a control bound to a kind it does not apply
\* to (clobber for equal, create for missing, clobber for parent, keep for
\* anything but filter_code_invalid) raises invalid_control and yields no
\* plan, so the lookup of every constructed plan lies inside the table.
C25_Invalid ==
    /\ [](~AllApplicable(controls) =>
            /\ pc = "no_plan"
            /\ raised = "invalid_control")
    /\ [](pc # "no_plan" =>
            \A k \in DOMAIN control_lookup :
                control_lookup[k] \in Applicable(k))
    /\ [][pc # "no_plan"]_vars

\* The constructor was given keep for parent, next to an applicable
\* control, and has raised.
C25_Witness ==
    /\ controls = <<ProblemControl("skip", "equal"),
                    ProblemControl("keep", "parent")>>
    /\ pc = "no_plan"
    /\ raised = "invalid_control"

\* ------------------------------------------------------------------------
\* The hooks.
\* ------------------------------------------------------------------------
\* C26: whenever prepare() has completed without the plan being failed,
\* every retained pair has a non-empty new.
C26_NonEmptyNew ==
    (has_prepared /\ pc # "prepare" /\ ~failed(problems)) =>
        \A k \in 1..Len(rps) : rps[k].new # << >>

\* The snippets of the plan that do not compile.
BadSnippets ==
    {a \in {"rename", "filter"} :
        (IF a = "rename" THEN rename_code ELSE filter_code) = SYNTAX_ERROR}

\* C27: when the rename or the filter snippet does not compile (and the
\* inputs parse), prepare() records one user_code_exec problem per such
\* snippet, uncontrolled and with no pair, and returns before its loop over
\* the steps: no other problem is ever recorded (no hook is called, no
\* existence check is made) and rps stays as parsed.  The first call of
\* rename_paths() then raises prepare_failed and attempts no rename.
C27_CompileFails ==
    /\ [](has_prepared /\ BadSnippets # {} /\ ParseViolations = {} =>
            /\ pc # "prepare"
            /\ step_i = 0
            /\ rps = Parsed
            /\ \A c \in CONTROLS : problems[c] = << >>
            /\ Len(problems[UNCONTROLLED]) = Cardinality(BadSnippets)
            /\ \A i \in 1..Len(problems[UNCONTROLLED]) :
                   problems[UNCONTROLLED][i] = Problem("user_code_exec", << >>)
            /\ attempts = << >>
            /\ tracking_index = TRACKING_not_started)
    /\ [][~has_renamed /\ has_renamed' /\ BadSnippets # {}
             /\ ParseViolations = {} =>
            /\ pc' = "idle"
            /\ raised' = "prepare_failed"
            /\ raised_problems' = problems'[UNCONTROLLED]
            /\ raised_problems' # << >>]_vars

\* Neither snippet compiles; rename_paths() has raised prepare_failed with
\* two problems and the pairs are those parsed.
C27_Witness ==
    /\ rename_code = SYNTAX_ERROR
    /\ filter_code = SYNTAX_ERROR
    /\ has_renamed
    /\ raised = "prepare_failed"
    /\ Len(raised_problems) = 2
    /\ Len(rps) = MaxPairs

\* What the hook of the turn being taken does on the k-th pair of rps.
FilterResult(k) ==
    FilterCall(filter_code, rps[k].orig, SeqVal(seq_start, seq_step, k - 1),
               compute_prefix_len(rps))

RenameResult(k) ==
    RenameCall(rename_code, rps[k].orig, SeqVal(seq_start, seq_step, k - 1),
               compute_prefix_len(rps))

\* The problem that the hook of the turn gives for the k-th pair, "" if none.
HookProblem(k) ==
    IF rp_steps[step_i] = "execute_user_filter"
    THEN IF filter_code # "" /\ FilterResult(k) = "raise"
         THEN "filter_code_invalid" ELSE ""
    ELSE IF rename_code = "" THEN ""
    ELSE IF RenameResult(k).kind = "raise" THEN "rename_code_invalid"
    ELSE IF RenameResult(k).kind = "bad" THEN "rename_code_bad_return"
    ELSE ""

\* How many times problem p is among the per-pair problems that the turn
\* appends to bucket c.
TimesAdded(c, p) ==
    Cardinality({i \in 1..Len(AddedTo(c)) : AddedTo(c)[i] = p})

\* C28: in the turn of a hook, every pair for which the hook raises, or
\* returns neither a string nor a path, gets one problem of the matching
\* kind with that pair attached, filed under the control of the kind, and
\* the turn records no other per-pair problem: none for the other pairs.
\* The hook is run on those all the same: a pair that the filter accepts
\* stays in rps and a pair that the rename hook gives a string is in rps
\* with that new, whether it stands before or after the failing pair.
C28_HookExceptions ==
    [][(pc = "prepare" /\ step_i \in {1, 2}) =>
          /\ \A k \in 1..Len(rps) : HookProblem(k) # "" =>
                 TimesAdded(ControlFor(control_lookup, HookProblem(k)),
                            Problem(HookProblem(k), <<rps[k]>>))
                 = Cardinality({j \in 1..Len(rps) :
                                   /\ rps[j] = rps[k]
                                   /\ HookProblem(j) = HookProblem(k)})
          /\ Len(AddedTo("skip")) + Len(AddedTo("keep"))
                 + Len(AddedTo("create")) + Len(AddedTo("clobber"))
                 + Len(AddedTo(UNCONTROLLED))
             = Cardinality({k \in 1..Len(rps) : HookProblem(k) # ""})
          /\ \A k \in 1..Len(rps) : HookProblem(k) = "" =>
                 IF step_i = 1
                 THEN (filter_code = "" \/ FilterResult(k) = "true") =>
                          \E j \in 1..Len(rps') : rps'[j] = rps[k]
                 ELSE rename_code # "" =>
                          \E j \in 1..Len(rps') :
                              rps'[j] = [rps[k] EXCEPT
                                            !.new = RenameResult(k).val]
      ]_vars

\* The filter raised for the first pair, whose problem is bound to skip, and
\* was run on the second, which it kept.
C28_Witness ==
    /\ pc = "prepare"
    /\ step_i = 2
    /\ inputs = <<(<<"a">>), (<<"d", "/", "a">>)>>
    /\ problems["skip"] =
           <<Problem("filter_code_invalid", <<RenamePair(<<"a">>, NONE_NEW)>>)>>
    /\ rps = <<RenamePair(<<"d", "/", "a">>, NONE_NEW)>>

\* The elements of s at the positions in K, in order.
Pick(s, K) ==
    LET ks == K \cap (1..Len(s))
        at(j) == CHOOSE k \in ks : Cardinality({m \in ks : m < k}) = j - 1
    IN  [j \in 1..Cardinality(ks) |-> s[at(j)]]

\* The filter's verdict on the k-th pair of rps in the filter turn.
Truthy(k) == filter_code = "" \/ FilterResult(k) = "true"

RaisedUnder(k, control) ==
    /\ filter_code # ""
    /\ FilterResult(k) = "raise"
    /\ ControlFor(control_lookup, "filter_code_invalid") = control

\* The same verdicts on the k-th parsed pair, which is what the filter turn
\* works on.
ParsedResult(k) ==
    FilterCall(filter_code, Parsed[k].orig,
               SeqVal(seq_start, seq_step, k - 1), compute_prefix_len(Parsed))

ParsedSurvivors ==
    {k \in 1..Len(Parsed) :
        \/ filter_code = ""
        \/ ParsedResult(k) = "true"
        \/ /\ ParsedResult(k) = "raise"
           /\ ControlFor(control_lookup, "filter_code_invalid") = "keep"}

\* C29 as stated: the pairs left in rps by the filter turn are exactly those
\* for which the hook returned a truthy value or raised under a keep
\* binding, and the rename turn works on those pairs only.
C29_FilterIff ==
    /\ [][(pc = "prepare" /\ step_i = 1) =>
            rps' = Pick(rps, {k \in 1..Len(rps) :
                                 Truthy(k) \/ RaisedUnder(k, "keep")})]_vars
    /\ [](pc = "prepare" /\ step_i = 2 =>
            rps = Pick(Parsed, ParsedSurvivors))

\* C29: the pairs left in rps by the filter turn are exactly those for which
\* the hook returned a truthy value, raised under a keep binding or raised
\* with filter_code_invalid not bound; in the last case the plan is failed
\* and prepare() returns without a rename turn.  So the pairs that the
\* rename turn works on are exactly those for which the filter returned a
\* truthy value or raised under keep: never a pair that the filter excluded.
C29_FilterSurvivors ==
    /\ [][(pc = "prepare" /\ step_i = 1) =>
            /\ rps' = Pick(rps, {k \in 1..Len(rps) :
                                   \/ Truthy(k)
                                   \/ RaisedUnder(k, "keep")
                                   \/ RaisedUnder(k, UNCONTROLLED)})
            /\ (\E k \in 1..Len(rps) : RaisedUnder(k, UNCONTROLLED)) =>
                   /\ failed(problems')
                   /\ pc' # "prepare"
          ]_vars
    /\ [](pc = "prepare" /\ step_i = 2 =>
            rps = Pick(Parsed, ParsedSurvivors))

\* The filter has excluded b and kept a, and the rename turn is next.
C29_Witness ==
    /\ pc = "prepare"
    /\ step_i = 2
    /\ filter_code = "return o != 'b'"
    /\ inputs = <<(<<"b">>), (<<"a">>)>>
    /\ rps = <<RenamePair(<<"a">>, NONE_NEW)>>

KeepBound == ControlFor(control_lookup, "filter_code_invalid") = "keep"

\* C30: when the filter raises for a pair and filter_code_invalid is bound
\* to keep, the filter turn files the problem under keep, files nothing as
\* uncontrolled, leaves the plan not failed and goes on to the rename turn
\* with the pair in rps, every field as it was.  The pair then goes through
\* the later steps like any other: once prepare() has returned not failed,
\* it is in rps unless a later step skipped it.  No filter_code_invalid
\* problem is ever uncontrolled under that binding.
C30_Keep ==
    /\ [][(pc = "prepare" /\ step_i = 1
             /\ \E k \in 1..Len(rps) : RaisedUnder(k, "keep")) =>
            /\ \A k \in 1..Len(rps) : RaisedUnder(k, "keep") =>
                   /\ \E j \in 1..Len(rps') : rps'[j] = rps[k]
                   /\ TimesAdded("keep",
                          Problem("filter_code_invalid", <<rps[k]>>)) >= 1
            /\ problems'[UNCONTROLLED] = problems[UNCONTROLLED]
            /\ ~failed(problems')
            /\ pc' = "prepare"
            /\ step_i' = 2
          ]_vars
    /\ [](KeepBound =>
            \A i \in 1..Len(problems[UNCONTROLLED]) :
                problems[UNCONTROLLED][i].name # "filter_code_invalid")
    /\ [](has_prepared /\ pc # "prepare" /\ ~failed(problems) /\ KeepBound
            /\ filter_code # "" =>
            \A k \in 1..Len(Parsed) : ParsedResult(k) = "raise" =>
                \/ \E j \in 1..Len(rps) : rps[j].orig = Parsed[k].orig
                \/ \E i \in 1..Len(problems["skip"]) :
                      /\ problems["skip"][i].rp # << >>
                      /\ problems["skip"][i].rp[1].orig = Parsed[k].orig
                      /\ problems["skip"][i].name # "filter_code_invalid")

\* The filter raised for a under a keep binding, the rename hook gave it the
\* new aa and rename_paths() has renamed it.
C30_Witness ==
    /\ KeepBound
    /\ inputs = <<(<<"a">>)>>
    /\ problems["keep"] =
           <<Problem("filter_code_invalid", <<RenamePair(<<"a">>, NONE_NEW)>>)>>
    /\ tracking_index = TRACKING_done
    /\ <<"a", "a">> \in DOMAIN fs
    /\ <<"a">> \notin DOMAIN fs

\* ------------------------------------------------------------------------
\* Sequence numbers and the common prefix.
\* ------------------------------------------------------------------------
\* n times the character x.
Xs(n) == [i \in 1..n |-> "x"]

\* C31: in each step the k-th pair (from 0) of the pairs in rps when the
\* step starts is given the sequence value seq_start + k * seq_step.  Seen
\* through the hooks that read it: the filter 'return seq > 1' keeps exactly
\* the pairs at the positions k with seq_start + k * seq_step > 1, and the
\* rename hook 'return "x" * seq' gives the pair at position k of the pairs
\* that survived the filter that many x, counted from seq_start again.
C31_SeqValues ==
    [][(pc = "prepare" /\ step_i \in {1, 2}) =>
          /\ (step_i = 1 /\ filter_code = "return seq > 1") =>
                 rps' = Pick(rps, {j \in 1..Len(rps) :
                                      seq_start + (j - 1) * seq_step > 1})
          /\ (step_i = 2 /\ rename_code = "return 'x' * seq") =>
                 /\ Len(rps') = Len(rps)
                 /\ \A j \in 1..Len(rps) :
                        /\ rps'[j].orig = rps[j].orig
                        /\ rps'[j].new = Xs(seq_start + (j - 1) * seq_step)
      ]_vars

\* The filter dropped the first of two pairs, and the rename hook numbered
\* the survivor from seq_start = 2 again.
C31_Witness ==
    /\ pc = "prepare"
    /\ step_i = 3
    /\ seq_start = 2
    /\ seq_step = 2
    /\ filter_code = "return o != 'b'"
    /\ inputs = <<(<<"b">>), (<<"a">>)>>
    /\ rps = <<RenamePair(<<"a">>, <<"x", "x">>)>>

\* The length of the longest string that every member of S starts with.
LongestCommonPrefix(S) ==
    IF S = {} THEN 0
    ELSE LET shortest == CHOOSE n \in {Len(s) : s \in S} :
                             \A s \in S : n <= Len(s)
         IN  MaxOf({n \in 0..shortest :
                       \A s, t \in S : SubSeq(s, 1, n) = SubSeq(t, 1, n)})

OrigsOf(pairs) == {pairs[k].orig : k \in 1..Len(pairs)}

\* C32: every turn of the loop sets prefix_len to the length of the longest
\* common prefix of the origs of the pairs in rps when the turn starts, and
\* plan.strip_prefix(o) called from the rename hook returns the orig
\* without its first prefix_len characters: the prefix shared by the pairs
\* that survived the filter, not one computed from the parsed pairs.
C32_Prefix ==
    [][pc = "prepare" =>
          LET n == LongestCommonPrefix(OrigsOf(rps))
          IN  /\ prefix_len' = n
              /\ (step_i = 2 /\ rename_code = "return plan.strip_prefix(o)") =>
                     /\ Len(rps') = Len(rps)
                     /\ \A j \in 1..Len(rps) :
                            /\ rps'[j].orig = rps[j].orig
                            /\ rps'[j].new =
                                   SubSeq(rps[j].orig, n + 1, Len(rps[j].orig))
      ]_vars

\* The filter dropped b, the two pairs left share the prefix d/, and the
\* rename hook stripped it although the three parsed origs share nothing.
C32_Witness ==
    /\ pc = "prepare"
    /\ step_i = 3
    /\ inputs = <<(<<"b">>), (<<"d", "/", "a">>), (<<"d", "/", "b">>)>>
    /\ prefix_len = 2
    /\ LongestCommonPrefix({inputs[k] : k \in 1..Len(inputs)}) = 0
    /\ rps = <<RenamePair(<<"d", "/", "a">>, <<"a">>),
               RenamePair(<<"d", "/", "b">>, <<"b">>)>>

\* ------------------------------------------------------------------------
\* Renames that change only the case of a name.
\* ------------------------------------------------------------------------
\* The pair differs from its orig only by case.
CaseOnly(rp) == rp.new # rp.orig /\ Fold(rp.new) = Fold(rp.orig)

\* The plan's one pair is a case-only rename of a path that exists.
CaseOnlyPlan ==
    /\ fs_ci
    /\ rename_code = "" /\ filter_code = ""
    /\ Len(Parsed) = 1
    /\ CaseOnly(Parsed[1])
    /\ Parsed[1].orig \in DOMAIN FsBase

\* C33: on a case-insensitive file system a pair whose new differs from its
\* orig only by case, and whose new no other pair shares, gets no problem.
\* A plan made of such a pair is not failed after prepare(), and when no
\* one else changes the file system rename_paths() completes: the entry is
\* then spelled as new, the spelling of orig is gone and every other entry
\* is as it was.
C33_CaseOnly ==
    /\ \A k \in 1..Len(Parsed) :
           (/\ fs_ci
            /\ CaseOnly(Parsed[k])
            /\ Parsed[k].orig \in DOMAIN FsBase
            /\ \A j \in 1..Len(Parsed) : j # k => Parsed[j].new # Parsed[k].new)
           => \A c \in DOMAIN problems :
                  ProblemsOf(c, ControllableNames \cup {"type"}, Parsed[k]) = {}
    /\ (CaseOnlyPlan /\ has_prepared /\ pc # "prepare") =>
           /\ ~failed(problems)
           /\ rps = Parsed
    /\ (CaseOnlyPlan /\ Executed /\ fs_changes = 0) =>
           /\ tracking_index = TRACKING_done
           /\ raised \in {"", "rename_done_already"}
           /\ Parsed[1].new \in DOMAIN fs
           /\ Parsed[1].orig \notin DOMAIN fs
           /\ fs[Parsed[1].new] = FsBase[Parsed[1].orig]
           /\ \A q \in DOMAIN FsBase : q # Parsed[1].orig =>
                  q \in DOMAIN fs /\ fs[q] = FsBase[q]
           /\ DOMAIN fs = (DOMAIN FsBase \ {Parsed[1].orig})
                              \cup {Parsed[1].new}

\* a was renamed to A on a case-insensitive file system.
C33_Witness ==
    /\ fs_ci
    /\ inputs = <<(<<"a">>), (<<"A">>)>>
    /\ control_lookup = << >>
    /\ tracking_index = TRACKING_done
    /\ <<"A">> \in DOMAIN fs
    /\ <<"a">> \notin DOMAIN fs

\* ---------------------------------------------------------------------------
\* The run of rename_paths() was not disturbed: nothing but the plan changed
\* the file system and no error was simulated.
Undisturbed == fs_changes = 0 /\ raise_at = RAISE_AT_none

\* C34: if prepare() leaves the plan not failed and nothing else modifies the
\* file system, rename_paths() completes without a file-system error: the
\* orig of every retained pair exists when its rename is attempted, no
\* attempt raises OSError, and once the call has ended tracking_index is done.
C34_NoFsError ==
    /\ (pc = "rename" /\ Undisturbed /\ loop_i < Len(rps))
           => path_exists(fs, fs_ci, rps[loop_i + 1].orig, FALSE)
    /\ (Executed /\ Undisturbed /\ ~failed(problems))
           => /\ raised # "OSError"
              /\ tracking_index = TRACKING_done

\* ---------------------------------------------------------------------------
\* The policy the plan was constructed with binds nothing to clobber.
NoClobberPolicy == \A i \in 1..Len(controls) : controls[i].control # "clobber"

\* The rename of the pair at loop_i is about to be attempted, under a policy
\* without clobber and with nothing but the plan changing the file system.
AboutToRename ==
    /\ pc = "rename"
    /\ loop_i < Len(rps)
    /\ NoClobberPolicy
    /\ Undisturbed

\* The entry that the new of the pair at loop_i names, when it is an entry
\* other than the one its orig names.
TargetTaken ==
    LET rp == rps[loop_i + 1]
        parent_made == IF rp.create_parent
                       THEN FsMkdir(fs, fs_ci, Parent(rp.new)).fs
                       ELSE fs
        t == Resolve(parent_made, fs_ci, rp.new)
    IN  t # NOENT /\ t # Resolve(fs, fs_ci, rp.orig)

\* C35: under a policy that binds no kind to clobber, rename_paths() never
\* renames onto a path that exists at the moment of that rename, and no
\* rename of the execution removes an entry of the file system: every step of
\* the loop leaves at least as many entries as it found.
C35_NoOverwrite ==
    /\ [][AboutToRename => ~TargetTaken]_vars
    /\ [][AboutToRename =>
            Cardinality(DOMAIN fs') >= Cardinality(DOMAIN fs)]_vars

\* ---------------------------------------------------------------------------
\* The position in rp_steps of the step that records problems of kind name.
StepOfKind(name) ==
    CASE name = "filter_code_invalid" -> 1
      [] name \in {"rename_code_invalid", "rename_code_bad_return"} -> 2
      [] name = "missing" -> 3
      [] name = "type" -> 4
      [] name = "equal" -> 5
      [] name \in {"existing", "existing_diff"} -> 6
      [] name = "parent" -> 7
      [] name \in {"colliding", "colliding_diff"} -> 8
      [] OTHER -> 0

Buckets == CONTROLS \cup {UNCONTROLLED}

\* The per-pair problems of bucket c, as positions in the bucket.
PerPair(c) == {k \in 1..Len(problems[c]) : problems[c][k].rp # << >>}

\* The pairs of rps for which the step being taken returns a problem that
\* no control is bound to.
FailingPairs ==
    {k \in 1..Len(rps) :
        LET res == RunStep(rp_steps[step_i], StepContext, rps[k],
                           SeqVal(seq_start, seq_step, k - 1))
        IN  res.problem # "" /\
            ControlFor(control_lookup, res.problem) = UNCONTROLLED}

AfterMissing ==
    {"type", "equal", "existing", "existing_diff", "parent", "colliding",
     "colliding_diff"}

\* The uncontrolled per-pair problems come from one step, and no per-pair
\* problem of any bucket comes from a later step than that one.
OneFailingStep ==
    \A i \in PerPair(UNCONTROLLED) :
        /\ \A j \in PerPair(UNCONTROLLED) :
              StepOfKind(problems[UNCONTROLLED][j].name)
                  = StepOfKind(problems[UNCONTROLLED][i].name)
        /\ \A c \in Buckets : \A k \in PerPair(c) :
              StepOfKind(problems[c][k].name)
                  <= StepOfKind(problems[UNCONTROLLED][i].name)
        /\ problems[UNCONTROLLED][i].name = "missing" =>
              \A c \in Buckets : \A k \in 1..Len(problems[c]) :
                  problems[c][k].name \notin AfterMissing

\* C36: prepare() stops after the first step in which an uncontrolled
\* problem is recorded.  No step is taken once the plan is failed; the step
\* that fails is run on every pair, so it records one uncontrolled problem
\* for each pair it fails on; and so the uncontrolled per-pair problems of
\* the ledger all come from one step, with no per-pair problem of a later
\* step in any bucket: an uncontrolled missing problem is never accompanied
\* by a type, equal, existing, parent or collision problem.
C36_OneFailingStep ==
    /\ [](pc = "prepare" => ~failed(problems))
    /\ []OneFailingStep
    /\ [][pc = "prepare" =>
            /\ Len(AddedTo(UNCONTROLLED)) = Cardinality(FailingPairs)
            /\ \A k \in FailingPairs :
                  \E i \in 1..Len(AddedTo(UNCONTROLLED)) :
                      AddedTo(UNCONTROLLED)[i].rp = <<rps[k]>>
            /\ (FailingPairs # {}) => pc' # "prepare"]_vars

\* A prepare() has ended on a step that recorded two uncontrolled problems,
\* after earlier steps had run.
C36_Witness ==
    /\ has_prepared /\ pc # "prepare"
    /\ Cardinality(PerPair(UNCONTROLLED)) >= 2
    /\ \E i \in PerPair(UNCONTROLLED) :
          StepOfKind(problems[UNCONTROLLED][i].name) >= 3
    /\ Len(rps) >= 1

\* ---------------------------------------------------------------------------
\* The pairs of now are the pairs of before at the positions K, in order,
\* each with the orig it had.
PickedFrom(now, before, K) ==
    /\ Len(now) = Cardinality(K)
    /\ \A j \in 1..Len(now) : now[j].orig = Pick(before, K)[j].orig

SubsequenceOf(now, before) ==
    \E K \in SUBSET (1..Len(before)) : PickedFrom(now, before, K)

\* C37: at every point of prepare() the pair vector is an order-preserving
\* subsequence of the parsed pairs.  A step leaves a selection of the pairs
\* it found, in the order it found them, each with its orig and, but for the
\* rename step, its new, and with the flags it had still set; no pair of the
\* vector has exclude set; and rename_paths() attempts the retained pairs in
\* that order, one after the other from the first.
C37_Subsequence ==
    /\ [](has_prepared => SubsequenceOf(rps, Parsed))
    /\ [](\A j \in 1..Len(rps) : ~rps[j].exclude)
    /\ [][pc = "prepare" =>
            \E K \in SUBSET (1..Len(rps)) :
                /\ PickedFrom(rps', rps, K)
                /\ \A j \in 1..Len(rps') :
                      LET old == Pick(rps, K)[j]
                      IN  /\ step_i # 2 => rps'[j].new = old.new
                          /\ old.clobber => rps'[j].clobber
                          /\ old.create_parent => rps'[j].create_parent]_vars
    /\ [](\A a \in 1..Len(attempts) : attempts[a].i = a - 1)

\* A prepare() has ended with two pairs left of three or more parsed ones,
\* the first parsed pair not among them, and both have been attempted.
C37_Witness ==
    /\ has_prepared /\ pc = "idle"
    /\ Len(Parsed) >= 3
    /\ Len(rps) = 2
    /\ rps[1].orig # rps[2].orig
    /\ rps[1].orig # Parsed[1].orig
    /\ Len(attempts) = 2

\* ---------------------------------------------------------------------------
\* C38: the lifecycle of a plan only moves forward, fresh -> prepared ->
\* executed.  has_prepared and has_renamed never go back to FALSE;
\* has_renamed implies has_prepared; tracking_index differs from not_started
\* only if has_renamed holds and the plan is not failed; and once prepare()
\* has returned, no call of rename_paths() and no step of its loop changes
\* rps or the problem ledger.
C38_Lifecycle ==
    /\ [][(has_prepared => has_prepared') /\ (has_renamed => has_renamed')]_vars
    /\ [](has_renamed => has_prepared)
    /\ [](tracking_index # TRACKING_not_started =>
              has_renamed /\ ~failed(problems))
    /\ [][(has_prepared /\ pc # "prepare") =>
              rps' = rps /\ problems' = problems]_vars

\* A plan was prepared by prepare(), with problems recorded and pairs
\* retained, and a later rename_paths() has gone through its loop.
C38_Witness ==
    /\ Executed
    /\ caller = "rename_paths"
    /\ tracking_index = TRACKING_done
    /\ fs_changes >= 1
    /\ Len(rps) >= 1
    /\ \E c \in CONTROLS : problems[c] # << >>

\* ---------------------------------------------------------------------------
Uncontrollable == {"type", "rename_code_bad_return"}

\* The pairs of rps for which the step being taken returns a type or a
\* rename_code_bad_return problem.
UncontrollablePairs ==
    {k \in 1..Len(rps) :
        RunStep(rp_steps[step_i], StepContext, rps[k],
                SeqVal(seq_start, seq_step, k - 1)).problem \in Uncontrollable}

\* C39: a type or rename_code_bad_return problem can never be controlled.
\* No constructed plan has a control bound to either kind: a constructor call
\* that names one raises invalid_control.  Whenever a step returns one for a
\* pair, the problem is appended to the uncontrolled bucket with that pair
\* and the plan is failed when the step ends; no bucket of a control ever
\* holds one.
C39_Uncontrollable ==
    /\ [](pc # "no_plan" =>
            /\ \A i \in 1..Len(controls) : controls[i].pname \notin Uncontrollable
            /\ \A n \in Uncontrollable : n \notin DOMAIN control_lookup)
    /\ [](pc = "no_plan" /\ (\E i \in 1..Len(controls) :
                                controls[i].pname \in Uncontrollable)
              => raised = "invalid_control")
    /\ [](\A c \in CONTROLS : \A k \in 1..Len(problems[c]) :
              problems[c][k].name \notin Uncontrollable)
    /\ [][(pc = "prepare" /\ UncontrollablePairs # {}) =>
            /\ \A k \in UncontrollablePairs :
                  \E i \in 1..Len(AddedTo(UNCONTROLLED)) :
                      /\ AddedTo(UNCONTROLLED)[i].rp = <<rps[k]>>
                      /\ AddedTo(UNCONTROLLED)[i].name \in Uncontrollable
            /\ failed(problems')
            /\ pc' # "prepare"]_vars

\* A plan constructed with a control has recorded a type or a
\* rename_code_bad_return problem, and rename_paths() has raised
\* prepare_failed.
C39_Witness ==
    /\ has_prepared /\ pc = "idle"
    /\ controls # << >>
    /\ raised = "prepare_failed"
    /\ \E k \in 1..Len(problems[UNCONTROLLED]) :
          problems[UNCONTROLLED][k].name \in Uncontrollable
====
